---------------------------- MODULE Spec2Model ----------------------------
(***************************************************************************)
(* A model of the Outlook MCP bridge: the string helpers of helpers.ts     *)
(* (escaping, recipient parsing, folder references, the delimited-output   *)
(* parser) and the script generators of index.ts that use them.            *)
(*                                                                         *)
(* Text is modelled as a sequence of one-character strings, so that        *)
(* splitting, trimming, escaping and sentinel search are computed the way  *)
(* the code computes them.                                                 *)
(***************************************************************************)
EXTENDS Naturals, Sequences, FiniteSets

VARIABLES
    fn,      \* helper calls: the helper applied to arg, or "none"
    arg,     \* helper calls: the input
    ret,     \* helper calls: the value returned
    pc,      \* mail functions: where the function called stands
    req,     \* mail functions: the arguments of the call
    script,  \* mail functions: the script dispatched last
    log,     \* mail functions: the scripts dispatched, in order
    result   \* mail functions: what the function returned or threw

helperVars == <<fn, arg, ret>>

mailVars == <<pc, req, script, log, result>>

vars == <<fn, arg, ret, pc, req, script, log, result>>

-----------------------------------------------------------------------------
(* Bounds of the model *)

MaxEscLen == 4
MaxRcptLen == 4
MaxPathLen == 4
MaxRecords == 2
MaxTextLen == 1
MaxListLen == 3
MaxFolderLen == 3
MaxPieces == 4
MaxHtmlLen == 4
MaxMsgs == 3
MaxTreeSize == 3
MaxTrashItems == 3
MaxInvocations == 2

-----------------------------------------------------------------------------
(* Text primitives *)

\* All texts over alphabet A of length at most n
StrOver(A, n) == UNION {[1..k -> A] : k \in 0..n}

\* String.prototype.trim's white space
IsSpace(c) == c \in {" ", "\n", "\t"}

\* Array.prototype.join("") of a sequence of texts
RECURSIVE Concat(_)
Concat(ss) == IF ss = <<>> THEN <<>> ELSE Head(ss) \o Concat(Tail(ss))

\* String.prototype.replace(/c/g, rep) for a one-character pattern c
RECURSIVE ReplaceAll(_, _, _)
ReplaceAll(s, c, rep) ==
    IF s = <<>> THEN <<>>
    ELSE (IF Head(s) = c THEN rep ELSE <<Head(s)>>) \o ReplaceAll(Tail(s), c, rep)

\* String.prototype.indexOf(c), 1-based; 0 when c does not occur
IndexOf(s, c) ==
    IF \E i \in 1..Len(s) : s[i] = c
    THEN CHOOSE i \in 1..Len(s) : s[i] = c /\ \A j \in 1..(i-1) : s[j] # c
    ELSE 0

\* String.prototype.split(c) for a one-character separator c
RECURSIVE SplitChar(_, _)
SplitChar(s, c) ==
    LET i == IndexOf(s, c) IN
    IF i = 0 THEN <<s>>
    ELSE <<SubSeq(s, 1, i-1)>> \o SplitChar(SubSeq(s, i+1, Len(s)), c)

RECURSIVE TrimLeft(_)
TrimLeft(s) == IF s # <<>> /\ IsSpace(Head(s)) THEN TrimLeft(Tail(s)) ELSE s

RECURSIVE TrimRight(_)
TrimRight(s) ==
    IF s # <<>> /\ IsSpace(s[Len(s)]) THEN TrimRight(SubSeq(s, 1, Len(s)-1)) ELSE s

\* String.prototype.trim
Trim(s) == TrimRight(TrimLeft(s))

-----------------------------------------------------------------------------
(* helpers.ts: escapeForAppleScript *)

BACKSLASH == "\\"
QUOTE == "\""

escapeForAppleScript_QuotesFirst(str) ==
    ReplaceAll(ReplaceAll(str, QUOTE, <<BACKSLASH, QUOTE>>),
               BACKSLASH, <<BACKSLASH, BACKSLASH>>)

\* an escape of the quotes alone
escapeForAppleScript_QuotesOnly(str) == ReplaceAll(str, QUOTE, <<BACKSLASH, QUOTE>>)

escapeForAppleScript(str) ==
    ReplaceAll(ReplaceAll(str, BACKSLASH, <<BACKSLASH, BACKSLASH>>),
               QUOTE, <<BACKSLASH, QUOTE>>)


-----------------------------------------------------------------------------
(* helpers.ts: parseRecipients *)

\* email.match(/^([^<]+)</): a non-empty run without "<" from the start, then "<"
extractNameFromEmail(email) ==
    LET lt == IndexOf(email, "<") IN
    IF lt > 1 THEN Trim(SubSeq(email, 1, lt-1))
    ELSE SplitChar(email, "@")[1]

parseRecipients_NoTrim(emailString) ==
    LET segs == SplitChar(emailString, ",") IN
    [i \in 1..Len(segs) |->
        [name |-> extractNameFromEmail(segs[i]), address |-> segs[i]]]

parseRecipients(emailString) ==
    LET segs == SplitChar(emailString, ",") IN
    [i \in 1..Len(segs) |->
        LET trimmed == Trim(segs[i]) IN
        [name |-> extractNameFromEmail(trimmed), address |-> trimmed]]

-----------------------------------------------------------------------------
(* helpers.ts: buildFolderRef, buildNestedFolderRef                        *)
(*                                                                         *)
(* A folder reference is the sequence of the tokens of its script text:    *)
(* the built-in  inbox , a named lookup  mail folder "v"  (v is the text   *)
(* put between the quotes), and the qualifier keyword  of .                *)

INBOX_NAME == <<"I", "n", "b", "o", "x">>

InboxTok == [t |-> "inbox", v |-> <<>>]
OfTok == [t |-> "of", v |-> <<>>]
MailFolder(name) == [t |-> "mail folder", v |-> name]

\* a reading of  folder === "Inbox"  that ignores the case of the letters
buildFolderRef_AnyCaseInbox(folder) ==
    IF folder \in {INBOX_NAME, <<"i", "n", "b", "o", "x">>,
                   <<"I", "N", "B", "O", "X">>}
    THEN <<InboxTok>> ELSE <<MailFolder(folder)>>

buildFolderRef(folder) ==
    IF folder = INBOX_NAME THEN <<InboxTok>> ELSE <<MailFolder(folder)>>

\* the loop  for (i = parts.length - 2; i >= 0; i--) ref += ` of mail folder ...`
RECURSIVE NestedTail(_, _)
NestedTail(parts, i) ==
    IF i < 1 THEN <<>>
    ELSE <<OfTok, MailFolder(parts[i])>> \o NestedTail(parts, i-1)

buildNestedFolderRef_RootFirst(path) ==
    LET parts == SplitChar(path, "/") IN
    IF path = INBOX_NAME THEN <<InboxTok>>
    ELSE IF Len(parts) = 1 THEN <<MailFolder(parts[1])>>
    ELSE <<MailFolder(parts[1])>> \o
         Concat([i \in 1..(Len(parts)-1) |-> <<OfTok, MailFolder(parts[i+1])>>])

buildNestedFolderRef(path) ==
    LET parts == SplitChar(path, "/") IN
    IF path = INBOX_NAME THEN <<InboxTok>>
    ELSE IF Len(parts) = 1 THEN <<MailFolder(parts[1])>>
    ELSE <<MailFolder(parts[Len(parts)])>> \o NestedTail(parts, Len(parts) - 1)

-----------------------------------------------------------------------------
(* helpers.ts: parseEmailOutput, and the wire format the read and search   *)
(* scripts build for it                                                    *)

MSG_TOK == <<"<", "<", "<", "M", "S", "G", ">", ">", ">">>
ID_TOK == <<"<", "<", "<", "I", "D", ">", ">", ">">>
FROM_TOK == <<"<", "<", "<", "F", "R", "O", "M", ">", ">", ">">>
DATE_TOK == <<"<", "<", "<", "D", "A", "T", "E", ">", ">", ">">>
CONTENT_TOK == <<"<", "<", "<", "C", "O", "N", "T", "E", "N", "T", ">", ">", ">">>
ENDMSG_TOK == <<"<", "<", "<", "E", "N", "D", "M", "S", "G", ">", ">", ">">>

NO_SUBJECT == <<"N", "o", " ", "s", "u", "b", "j", "e", "c", "t">>
UNKNOWN_SENDER == <<"U", "n", "k", "n", "o", "w", "n", " ", "s", "e", "n", "d", "e", "r">>
NO_CONTENT == <<"[", "C", "o", "n", "t", "e", "n", "t", " ", "n", "o", "t", " ", "a", "v", "a", "i", "l", "a", "b", "l", "e", "]">>
\* new Date().toString(): the time of the call, one text that no field holds
NOW_STRING == <<"N", "O", "W">>

\* The places where pat occurs in s
Occurrences(s, pat) ==
    {i \in 1..(Len(s) - Len(pat) + 1) :
        s[i] = pat[1] /\ SubSeq(s, i, i + Len(pat) - 1) = pat}

Min(S) == CHOOSE x \in S : \A y \in S : x <= y
Max(S) == CHOOSE x \in S : \A y \in S : x >= y

\* String.prototype.includes(pat)
Includes(s, pat) == Occurrences(s, pat) # {}

\* String.prototype.split(pat) for a text pattern
RECURSIVE SplitStr(_, _)
SplitStr(s, pat) ==
    LET occ == Occurrences(s, pat) IN
    IF occ = {} THEN <<s>>
    ELSE LET i == Min(occ) IN
         <<SubSeq(s, 1, i-1)>> \o SplitStr(SubSeq(s, i + Len(pat), Len(s)), pat)

NoMatch == [matched |-> FALSE, text |-> <<>>]

\* block.match(/^(.*)close/s): the greedy capture runs to the last close
MatchFromStart(block, close) ==
    LET occ == Occurrences(block, close) IN
    IF occ = {} THEN NoMatch
    ELSE [matched |-> TRUE, text |-> SubSeq(block, 1, Max(occ) - 1)]

\* block.match(/open(.*)close/s): the leftmost open that a close follows,
\* and the greedy capture runs to the last close
MatchBetween(block, open, close) ==
    LET o == Occurrences(block, open)
        c == Occurrences(block, close) IN
    IF o = {} \/ c = {} \/ (c # {} /\ o # {} /\ Max(c) < Min(o) + Len(open))
    THEN NoMatch
    ELSE [matched |-> TRUE,
          text |-> SubSeq(block, Min(o) + Len(open), Max(c) - 1)]

Undefined == [defined |-> FALSE, v |-> <<>>]
Defined(v) == [defined |-> TRUE, v |-> v]

\* the left operand kept whatever it is
OrElse_KeepLeft(a, b) == a

\* a || b on texts: b when a is the empty text
OrElse(a, b) == IF a = <<>> THEN b ELSE a

\* One block of the loop of parseEmailOutput: the records it pushes (0 or 1)
ParseBlock(block) ==
    LET hasId == Includes(block, ID_TOK)
        subjectMatch == IF hasId THEN MatchFromStart(block, ID_TOK)
                        ELSE MatchFromStart(block, FROM_TOK)
        idMatch == IF hasId THEN MatchBetween(block, ID_TOK, FROM_TOK) ELSE NoMatch
        senderMatch == MatchBetween(block, FROM_TOK, DATE_TOK)
        dateMatch == MatchBetween(block, DATE_TOK, CONTENT_TOK)
        contentMatch == MatchBetween(block, CONTENT_TOK, ENDMSG_TOK)
        contentText == IF contentMatch.matched THEN Trim(contentMatch.text) ELSE <<>>
    IN  IF subjectMatch.matched
        THEN <<[messageId |-> IF hasId /\ idMatch.matched
                              THEN Defined(Trim(idMatch.text)) ELSE Undefined,
                subject |-> OrElse(Trim(subjectMatch.text), NO_SUBJECT),
                sender |-> IF senderMatch.matched THEN Trim(senderMatch.text)
                           ELSE UNKNOWN_SENDER,
                dateSent |-> IF dateMatch.matched THEN Trim(dateMatch.text)
                             ELSE NOW_STRING,
                content |-> OrElse(contentText, NO_CONTENT)]>>
        ELSE <<>>

parseEmailOutput_EmptyId(raw) ==
    IF raw = <<>> \/ Trim(raw) = <<>> THEN <<>>
    ELSE LET messageBlocks ==
                 SelectSeq(SplitStr(raw, MSG_TOK), LAMBDA b : Trim(b) # <<>>)
             fix(r) == [r EXCEPT !.messageId = Defined(r.messageId.v)]
         IN  Concat([i \in 1..Len(messageBlocks) |->
                 LET rs == ParseBlock(messageBlocks[i]) IN
                 [j \in 1..Len(rs) |-> fix(rs[j])]])

\* a loop that ends at the first block without a subject match
RECURSIVE ParseUntilBadBlock(_)
ParseUntilBadBlock(blocks) ==
    IF blocks = <<>> \/ ParseBlock(Head(blocks)) = <<>> THEN <<>>
    ELSE ParseBlock(Head(blocks)) \o ParseUntilBadBlock(Tail(blocks))

parseEmailOutput_StopAtBadBlock(raw) ==
    IF raw = <<>> \/ Trim(raw) = <<>> THEN <<>>
    ELSE ParseUntilBadBlock(
             SelectSeq(SplitStr(raw, MSG_TOK), LAMBDA b : Trim(b) # <<>>))

parseEmailOutput(raw) ==
    IF raw = <<>> \/ Trim(raw) = <<>> THEN <<>>
    ELSE LET messageBlocks ==
                 SelectSeq(SplitStr(raw, MSG_TOK), LAMBDA b : Trim(b) # <<>>)
         IN  Concat([i \in 1..Len(messageBlocks) |-> ParseBlock(messageBlocks[i])])

\* The text a read or search script appends for one message, and the legacy
\* form without the id segment
WireRecord(m) ==
    MSG_TOK \o m.subject
        \o (IF m.id.defined THEN ID_TOK \o m.id.v ELSE <<>>)
        \o FROM_TOK \o m.sender \o DATE_TOK \o m.date
        \o CONTENT_TOK \o m.content \o ENDMSG_TOK

\* messageOutput: the records one after the other, nothing between them
WireText(ms) == Concat([i \in 1..Len(ms) |-> WireRecord(ms[i])])

-----------------------------------------------------------------------------
(* helpers.ts: detectHtml *)

UPPER_LETTERS ==
    <<"A", "B", "C", "D", "E", "F", "G", "H", "I", "J", "K", "L", "M", 
      "N", "O", "P", "Q", "R", "S", "T", "U", "V", "W", "X", "Y", "Z">>
LOWER_LETTERS ==
    <<"a", "b", "c", "d", "e", "f", "g", "h", "i", "j", "k", "l", "m", 
      "n", "o", "p", "q", "r", "s", "t", "u", "v", "w", "x", "y", "z">>

\* the /i flag: letters are compared without their case
FoldCase(c) ==
    IF \E k \in 1..Len(UPPER_LETTERS) : UPPER_LETTERS[k] = c
    THEN LOWER_LETTERS[CHOOSE k \in 1..Len(UPPER_LETTERS) : UPPER_LETTERS[k] = c]
    ELSE c

\* the alternatives of the pattern other than h[1-6]
TAG_NAMES ==
    {<<"p">>,
     <<"d", "i", "v">>,
     <<"b", "r">>,
     <<"s", "p", "a", "n">>,
     <<"t", "a", "b", "l", "e">>,
     <<"u", "l">>,
     <<"o", "l">>,
     <<"l", "i">>,
     <<"a">>,
     <<"b">>,
     <<"i">>,
     <<"s", "t", "r", "o", "n", "g">>,
     <<"e", "m">>,
     <<"i", "m", "g">>,
     <<"h", "r">>}

HEADING_DIGITS == {"1", "2", "3", "4", "5", "6"}

\* [>\s\/]
IsTagEnd(c) == c = ">" \/ IsSpace(c) \/ c = "/"

\* a character as the pattern compares it: with the i flag, its lower case
Folded(c, ignoreCase) == IF ignoreCase THEN FoldCase(c) ELSE c

\* the characters of content from place i on are those of word
Follows(content, i, word, ignoreCase) ==
    /\ i + Len(word) - 1 <= Len(content)
    /\ \A k \in 1..Len(word) : Folded(content[i + k - 1], ignoreCase) = word[k]

\* the pattern matches with its "<" at place i
TagAt(content, i, ignoreCase) ==
    /\ content[i] = "<"
    /\ \/ \E tag \in TAG_NAMES :
             /\ Follows(content, i + 1, tag, ignoreCase)
             /\ i + Len(tag) + 1 <= Len(content)
             /\ IsTagEnd(content[i + Len(tag) + 1])
       \/ /\ i + 3 <= Len(content)
          /\ Folded(content[i + 1], ignoreCase) = "h"
          /\ content[i + 2] \in HEADING_DIGITS
          /\ IsTagEnd(content[i + 3])

\* the pattern without its i flag
detectHtml_CaseSensitive(content) ==
    \E i \in 1..Len(content) : TagAt(content, i, FALSE)

detectHtml(content) ==
    \E i \in 1..Len(content) : TagAt(content, i, TRUE)

-----------------------------------------------------------------------------
(* index.ts: the scripts of the mail functions                             *)
(*                                                                         *)
(* A script is modelled by what the claims read of its text: the folder    *)
(* reference it addresses, its recipient-construction statements in text   *)
(* order, the quoted literals that hold a caller's text (with the text as  *)
(* the caller gave it beside the text as embedded), whether it runs the    *)
(* send command, and the words it returns when it ran through.  Attachment *)
(* statements, message ids, limits and date filters are left out.          *)

\* str.replace(/"/g, '\\"'): the quote half of the escaping rule alone
QuoteOnly(str) == ReplaceAll(str, QUOTE, <<BACKSLASH, QUOTE>>)

Lit(field, raw, text) == [field |-> field, raw |-> raw, text |-> text]

NoScript ==
    [kind |-> "none", folderRef |-> <<>>, recipients |-> <<>>, literals |-> <<>>,
     sends |-> FALSE, html |-> FALSE, okText |-> <<>>]

\* make new <class> recipient with properties
\*     {email address:{name:"<name>", address:"<address>"}}
\* for every recipient of a parsed list, both texts escaped
RecipientStmts(class, rs) ==
    [i \in 1..Len(rs) |->
        [class |-> class, hasName |-> TRUE,
         name |-> escapeForAppleScript(rs[i].name),
         address |-> escapeForAppleScript(rs[i].address)]]

RecipientLits(class, rs) ==
    Concat([i \in 1..Len(rs) |->
        <<Lit(class, rs[i].name, escapeForAppleScript(rs[i].name)),
          Lit(class, rs[i].address, escapeForAppleScript(rs[i].address))>>])

\* the same statements as createDraft writes them: r.name and r.address as is
RawRecipientStmts(class, rs) ==
    [i \in 1..Len(rs) |->
        [class |-> class, hasName |-> TRUE,
         name |-> rs[i].name, address |-> rs[i].address]]

RawRecipientLits(class, rs) ==
    Concat([i \in 1..Len(rs) |->
        <<Lit(class, rs[i].name, rs[i].name),
          Lit(class, rs[i].address, rs[i].address)>>])

\* cc ? parseRecipients(cc) : []
ParseOptional(list) == IF list = <<>> THEN <<>> ELSE parseRecipients(list)

\* folder: string = "Inbox"
FolderOrDefault(f) == IF f.defined THEN f.v ELSE INBOX_NAME

\* The words of the texts the scripts and functions return
W_QueuedWithAttachments ==
    <<"Email", "queued", "for", "delivery", "(with", "attachments)">>
W_Queued == <<"Email", "queued", "for", "delivery">>
W_DraftWithAttachments ==
    <<"Email", "draft", "created", "with", "attachments.", "Please", "review",
      "and", "send", "manually.">>
W_DraftCreatedManual ==
    <<"A", "draft", "has", "been", "created", "in", "Outlook", "with", "the",
      "content", "and", "attachments.", "Please", "review", "and", "send", "it",
      "manually.">>
W_ReplyDraft ==
    <<"Reply", "draft", "created", "and", "opened", "in", "Outlook", "(thread",
      "preserved)">>
W_Draft == <<"Draft", "created", "and", "opened", "in", "Outlook">>
W_ReplyQueued == <<"Reply", "queued", "for", "delivery">>
W_ForwardQueued == <<"Forward", "queued", "for", "delivery", "to", "${escapedTo}">>
W_ScriptError == <<"Error:", "${errMsg}">>
W_CaughtError == <<"Error:", "${error}">>
W_CouldNotSend ==
    <<"Could", "not", "send", "or", "create", "email.", "${error3}">>
W_Messages == <<"${messages}">>
W_Counts == <<"Total:", "${totalCount},", "Unread:", "${unreadCount}">>
W_Moved == <<"Email", "moved", "successfully", "to", "${targetFolder}">>
W_FolderCreated == <<"Folder", "created:", "${name}">>
W_FolderRenamed == <<"Folder", "renamed", "to:", "${newName}">>
W_FolderDeleted == <<"Folder", "deleted:", "${folder}">>

\* getUnreadEmails: the folder text is put into the script as it is
UnreadScript(r) ==
    LET folder == FolderOrDefault(r.folder) IN
    [NoScript EXCEPT
        !.kind = "unread",
        !.folderRef = IF folder = INBOX_NAME THEN <<InboxTok>>
                      ELSE <<[t |-> "raw", v |-> folder]>>,
        !.okText = W_Messages]

SearchScript(r) ==
    [NoScript EXCEPT
        !.kind = "search",
        !.folderRef = buildFolderRef(FolderOrDefault(r.folder)),
        !.literals = <<Lit("searchTerm", r.searchTerm, QuoteOnly(r.searchTerm))>>,
        !.okText = W_Messages]

ReadScript(r) ==
    [NoScript EXCEPT
        !.kind = "read",
        !.folderRef = buildFolderRef(FolderOrDefault(r.folder)),
        !.okText = W_Messages]

\* the handler passes  args.folder || "Inbox"
CountScript(r) ==
    [NoScript EXCEPT
        !.kind = "count",
        !.folderRef = buildFolderRef(IF r.folder.defined /\ r.folder.v # <<>>
                                     THEN r.folder.v ELSE INBOX_NAME),
        !.okText = W_Counts]

MoveScript(r) ==
    [NoScript EXCEPT
        !.kind = "move_email",
        !.folderRef = buildNestedFolderRef(r.targetFolder),
        !.literals = <<Lit("targetFolder", r.targetFolder,
                           escapeForAppleScript(r.targetFolder))>>,
        !.okText = W_Moved]

CreateFolderScript(r) ==
    [NoScript EXCEPT
        !.kind = "create_folder",
        !.folderRef = IF r.parent # <<>> THEN buildNestedFolderRef(r.parent)
                      ELSE <<>>,
        !.literals = <<Lit("name", r.name, escapeForAppleScript(r.name))>>,
        !.okText = W_FolderCreated]

RenameFolderScript(r) ==
    [NoScript EXCEPT
        !.kind = "rename_folder",
        !.folderRef = buildNestedFolderRef(r.folder.v),
        !.literals = <<Lit("newName", r.newName, escapeForAppleScript(r.newName)),
                       Lit("newName", r.newName, escapeForAppleScript(r.newName))>>,
        !.okText = W_FolderRenamed]

DeleteFolderScript(r) ==
    [NoScript EXCEPT
        !.kind = "delete_folder",
        !.folderRef = buildNestedFolderRef(r.folder.v),
        !.literals = <<Lit("folder", r.folder.v, escapeForAppleScript(r.folder.v))>>,
        !.okText = W_FolderDeleted]

\* The letters of the model's alphabets in the other case
Upper(c) == IF c = "a" THEN "A" ELSE IF c = "b" THEN "B" ELSE IF c = "c" THEN "C" ELSE c
Lower(c) == IF c = "A" THEN "a" ELSE IF c = "B" THEN "b" ELSE IF c = "C" THEN "c" ELSE c

\* String.prototype.toLowerCase
ToLowerCase(str) == [i \in 1..Len(str) |-> Lower(str[i])]

\* Array.prototype.join(sep)
RECURSIVE Join(_, _)
Join(parts, sep) ==
    IF Len(parts) = 0 THEN <<>>
    ELSE IF Len(parts) = 1 THEN parts[1]
    ELSE parts[1] \o sep \o Join(Tail(parts), sep)

\* The extractNameFromEmail local to sendEmail and createDraft: the part before
\* "@", its "."-separated words capitalized and joined by a space
LocalExtractName(email) ==
    LET words == SplitChar(SplitChar(email, "@")[1], ".") IN
    Join([i \in 1..Len(words) |->
              IF words[i] = <<>> THEN <<>>
              ELSE <<Upper(words[i][1])>> \o Tail(words[i])],
         <<" ">>)

\* args.isHtml || false, the isHtml the handler passes on
HtmlFlag(r) == r.isHtml = "true"

\* The recipients and literals methods 1 and 2 of sendEmail share
SendRecipients(r) ==
    RecipientStmts("to", parseRecipients(r.to))
        \o RecipientStmts("cc", ParseOptional(r.cc))
        \o RecipientStmts("bcc", ParseOptional(r.bcc))

SendLiterals(r) ==
    <<Lit("subject", r.subject, QuoteOnly(r.subject)),
      Lit("body", r.body, escapeForAppleScript(r.body))>>

SendRecipientLits(r) ==
    RecipientLits("to", parseRecipients(r.to))
        \o RecipientLits("cc", ParseOptional(r.cc))
        \o RecipientLits("bcc", ParseOptional(r.bcc))

SendScript1(r) ==
    [NoScript EXCEPT
        !.kind = "send1",
        !.html = HtmlFlag(r),
        !.recipients = SendRecipients(r),
        !.literals = SendLiterals(r) \o SendRecipientLits(r),
        !.sends = TRUE,
        !.okText = W_QueuedWithAttachments]

SendScript2(r) ==
    [NoScript EXCEPT
        !.kind = "send2",
        !.html = HtmlFlag(r),
        !.recipients = SendRecipients(r),
        !.literals = SendLiterals(r) \o SendRecipientLits(r),
        !.sends = TRUE,
        !.okText = W_Queued]

\* set to recipients of newMessage to {"<to>"}, and the same for cc and bcc
WholeListStmt(class, list) ==
    IF list = <<>> THEN <<>>
    ELSE <<[class |-> class, hasName |-> FALSE, name |-> <<>>, address |-> list]>>

WholeListLit(class, list) ==
    IF list = <<>> THEN <<>> ELSE <<Lit(class, list, list)>>

SendScript3(r) ==
    [NoScript EXCEPT
        !.kind = "send3",
        !.html = HtmlFlag(r),
        !.recipients = <<[class |-> "to", hasName |-> FALSE, name |-> <<>>,
                          address |-> r.to]>>
                       \o WholeListStmt("cc", r.cc) \o WholeListStmt("bcc", r.bcc),
        !.literals = SendLiterals(r) \o <<Lit("to", r.to, r.to)>>
                     \o WholeListLit("cc", r.cc) \o WholeListLit("bcc", r.bcc),
        !.sends = FALSE,
        !.okText = W_DraftWithAttachments]

\* what sendEmail returns when method 3 ran through
SendMethod3Result_Sent == <<"Email", "sent", "successfully">>

SendMethod3Result == W_DraftCreatedManual

\* createDraft with replyToMessageId: only the body is embedded
ReplyDraftScript(r) ==
    [NoScript EXCEPT
        !.kind = "reply_draft",
        !.html = HtmlFlag(r),
        !.literals = <<Lit("body", r.body, escapeForAppleScript(r.body))>>,
        !.okText = W_ReplyDraft]

DraftScript(r) ==
    [NoScript EXCEPT
        !.kind = "draft",
        !.html = HtmlFlag(r),
        !.recipients = <<[class |-> "to", hasName |-> TRUE,
                          name |-> LocalExtractName(r.to), address |-> r.to]>>
                       \o RawRecipientStmts("cc", ParseOptional(r.cc))
                       \o RawRecipientStmts("bcc", ParseOptional(r.bcc)),
        !.literals = SendLiterals(r)
                     \o <<Lit("to", LocalExtractName(r.to), LocalExtractName(r.to)),
                          Lit("to", r.to, r.to)>>
                     \o RawRecipientLits("cc", ParseOptional(r.cc))
                     \o RawRecipientLits("bcc", ParseOptional(r.bcc)),
        !.okText = W_Draft]

ForwardScript(r) ==
    [NoScript EXCEPT
        !.kind = "forward",
        !.recipients = <<[class |-> "to", hasName |-> FALSE, name |-> <<>>,
                          address |-> escapeForAppleScript(r.forwardTo)]>>
                       \o RecipientStmts("cc", ParseOptional(r.forwardCc))
                       \o RecipientStmts("bcc", ParseOptional(r.forwardBcc)),
        !.literals = <<Lit("forwardTo", r.forwardTo, escapeForAppleScript(r.forwardTo))>>
                     \o RecipientLits("cc", ParseOptional(r.forwardCc))
                     \o RecipientLits("bcc", ParseOptional(r.forwardBcc))
                     \o (IF r.forwardComment # <<>>
                         THEN <<Lit("forwardComment", r.forwardComment,
                                    escapeForAppleScript(r.forwardComment))>>
                         ELSE <<>>)
                     \o <<Lit("forwardTo", r.forwardTo, escapeForAppleScript(r.forwardTo))>>,
        !.sends = TRUE,
        !.okText = W_ForwardQueued]

\* replyEmail, one recipient class: the override list, or else the added
\* list; the removal list is embedded as a list of lower-cased addresses
ReplyClassStmts(class, override, add) ==
    IF override # <<>> THEN RecipientStmts(class, parseRecipients(override))
    ELSE IF add # <<>> THEN RecipientStmts(class, parseRecipients(add))
    ELSE <<>>

ReplyClassLits(class, override, add, remove) ==
    IF override # <<>> THEN RecipientLits(class, parseRecipients(override))
    ELSE (IF add # <<>> THEN RecipientLits(class, parseRecipients(add)) ELSE <<>>)
         \o (IF remove # <<>>
             THEN LET rs == parseRecipients(remove) IN
                  [i \in 1..Len(rs) |->
                      Lit(class, ToLowerCase(rs[i].address),
                          escapeForAppleScript(ToLowerCase(rs[i].address)))]
             ELSE <<>>)

ReplyScript(r) ==
    [NoScript EXCEPT
        !.kind = "reply",
        !.html = HtmlFlag(r),
        !.recipients = ReplyClassStmts("to", r.replyTo, r.addTo)
                       \o ReplyClassStmts("cc", r.replyCc, r.addCc)
                       \o ReplyClassStmts("bcc", r.replyBcc, r.addBcc),
        !.literals = <<Lit("replyBody", r.replyBody, escapeForAppleScript(r.replyBody))>>
                     \o ReplyClassLits("to", r.replyTo, r.addTo, r.removeTo)
                     \o ReplyClassLits("cc", r.replyCc, r.addCc, r.removeCc)
                     \o ReplyClassLits("bcc", r.replyBcc, r.addBcc, r.removeBcc),
        !.sends = TRUE,
        !.okText = W_ReplyQueued]

\* a check of the TO class alone
ReplyConflict_ToOnly(r) ==
    IF r.replyTo # <<>> /\ (r.addTo # <<>> \/ r.removeTo # <<>>)
    THEN <<"Error:", "Cannot", "use", "replyTo", "with", "addTo", "or", "removeTo">>
    ELSE <<>>

\* the conflict check at the head of replyEmail
ReplyConflict(r) ==
    IF r.replyTo # <<>> /\ (r.addTo # <<>> \/ r.removeTo # <<>>)
    THEN <<"Error:", "Cannot", "use", "replyTo", "with", "addTo", "or", "removeTo">>
    ELSE IF r.replyCc # <<>> /\ (r.addCc # <<>> \/ r.removeCc # <<>>)
    THEN <<"Error:", "Cannot", "use", "replyCc", "with", "addCc", "or", "removeCc">>
    ELSE IF r.replyBcc # <<>> /\ (r.addBcc # <<>> \/ r.removeBcc # <<>>)
    THEN <<"Error:", "Cannot", "use", "replyBcc", "with", "addBcc", "or", "removeBcc">>
    ELSE <<>>

-----------------------------------------------------------------------------
(* index.ts: the calls of the mail functions, as the request handler makes *)
(* them once isMailArgs and its own checks have accepted the request       *)

UserText == StrOver({"a", QUOTE, BACKSLASH}, MaxTextLen)
GivenText == UserText \ {<<>>}
AddrLists == StrOver({"a", ",", QUOTE}, MaxListLen) \ {<<>>}
Folders == StrOver({"A", "/"}, MaxFolderLen) \cup {INBOX_NAME}
GivenFolders == Folders \ {<<>>}
FolderArgs == {Undefined} \cup {Defined(f) : f \in Folders}

\* cc and bcc together: none, one cc, a cc list with a bcc
CcBccPairs ==
    {<< <<>>, <<>> >>,
     << <<"b">>, <<>> >>,
     << <<"b", ",", " ", "c">>, <<"b", QUOTE>> >>}

Bodies == {<<"a">>, <<BACKSLASH, QUOTE>>, <<"<", "B", ">">>}

\* isHtml?: boolean
IsHtmlArgs == {"absent", "true", "false"}

OptionalList == {<<>>, <<"a">>, <<"a", ",", "b">>}
OptionalOne == {<<>>, <<"c">>}
OptionalRemove == {<<>>, <<"A", QUOTE>>}

NoArgs ==
    [operation |-> "none", folder |-> Undefined, searchTerm |-> <<>>,
     to |-> <<>>, cc |-> <<>>, bcc |-> <<>>, subject |-> <<>>, body |-> <<>>,
     name |-> <<>>, parent |-> <<>>, targetFolder |-> <<>>, newName |-> <<>>,
     forwardTo |-> <<>>, forwardCc |-> <<>>, forwardBcc |-> <<>>,
     forwardComment |-> <<>>, replyBody |-> <<>>,
     replyTo |-> <<>>, replyCc |-> <<>>, replyBcc |-> <<>>,
     addTo |-> <<>>, addCc |-> <<>>, addBcc |-> <<>>,
     removeTo |-> <<>>, removeCc |-> <<>>, removeBcc |-> <<>>,
     replyToMessageId |-> FALSE, isHtml |-> "absent"]

FolderCalls ==
    {[NoArgs EXCEPT !.operation = op, !.folder = f] :
        op \in {"unread", "read", "count"}, f \in FolderArgs}
    \cup {[NoArgs EXCEPT !.operation = "search", !.folder = f, !.searchTerm = t] :
        f \in FolderArgs, t \in GivenText}
    \cup {[NoArgs EXCEPT !.operation = "move_email", !.targetFolder = f] :
        f \in GivenFolders}
    \cup {[NoArgs EXCEPT !.operation = "create_folder", !.name = n, !.parent = f] :
        n \in GivenText, f \in Folders}
    \cup {[NoArgs EXCEPT !.operation = "rename_folder", !.folder = Defined(f),
                         !.newName = n] : f \in GivenFolders, n \in GivenText}
    \cup {[NoArgs EXCEPT !.operation = "delete_folder", !.folder = Defined(f)] :
        f \in GivenFolders}

SendCalls ==
    {[NoArgs EXCEPT !.operation = op, !.to = t, !.cc = c[1], !.bcc = c[2],
                    !.subject = su, !.body = b, !.isHtml = h] :
        op \in {"send", "draft"}, t \in AddrLists, c \in CcBccPairs,
        su \in GivenText, b \in Bodies, h \in IsHtmlArgs}
    \cup {[NoArgs EXCEPT !.operation = "draft", !.replyToMessageId = TRUE,
                         !.body = b, !.isHtml = h] :
        b \in Bodies, h \in IsHtmlArgs}

ForwardCalls ==
    {[NoArgs EXCEPT !.operation = "forward", !.forwardTo = t, !.forwardCc = c[1],
                    !.forwardBcc = c[2], !.forwardComment = k] :
        t \in AddrLists, c \in CcBccPairs, k \in UserText}

ReplyCalls ==
    {[NoArgs EXCEPT !.operation = "reply", !.replyBody = b, !.isHtml = h,
                    !.replyTo = rt, !.addTo = at, !.removeTo = xt,
                    !.replyCc = rc, !.addCc = ac,
                    !.replyBcc = rb, !.removeBcc = xb] :
        b \in Bodies, rt \in OptionalList, at \in OptionalList,
        xt \in OptionalRemove, rc \in OptionalOne, ac \in OptionalOne,
        rb \in OptionalOne, xb \in OptionalRemove, h \in IsHtmlArgs}

Calls == FolderCalls \cup SendCalls \cup ForwardCalls \cup ReplyCalls

NoResult == [kind |-> "none", text |-> <<>>]
Returned(text) == [kind |-> "return", text |-> text]
Thrown(text) == [kind |-> "throw", text |-> text]

MailIdle ==
    /\ pc = "idle"
    /\ req = NoArgs
    /\ script = NoScript
    /\ log = <<>>
    /\ result = NoResult

Init == fn = "none" /\ arg = <<>> /\ ret = <<>> /\ MailIdle

\* What the mail client does with a dispatched script: it runs through, it
\* returns the text of its  on error  branch, or runAppleScript rejects
Outcomes == {"ok", "error", "throw"}

Call ==
    /\ pc = "idle"
    /\ \E r \in Calls : req' = r
    /\ pc' = "access"
    /\ UNCHANGED <<script, log, result, helperVars>>

\* await checkOutlookAccess(): it resolves, or it throws and the function
\* called throws with it
CheckAccess ==
    /\ pc = "access"
    /\ \/ /\ pc' = IF req.operation = "send" THEN "send1" ELSE req.operation
          /\ UNCHANGED result
       \/ /\ pc' = "done"
          /\ result' = Thrown(<<"Cannot", "access", "Microsoft", "Outlook.">>)
    /\ UNCHANGED <<req, script, log, helperVars>>

Dispatch(s) == script' = s /\ log' = Append(log, s.kind)

\* getUnreadEmails, searchEmails, readEmails: an "Error:" text is thrown
RunListing(op, s) ==
    /\ pc = op
    /\ Dispatch(s)
    /\ \E out \in Outcomes :
        result' = IF out = "ok" THEN Returned(s.okText)
                  ELSE IF out = "error" THEN Thrown(W_ScriptError)
                  ELSE Thrown(<<"${error}">>)
    /\ pc' = "done"
    /\ UNCHANGED <<req, helperVars>>

\* the functions that return the script's text, and "Error: ..." when
\* runAppleScript rejects
RunReturning(op, s) ==
    /\ pc = op
    /\ Dispatch(s)
    /\ \E out \in Outcomes :
        result' = IF out = "ok" THEN Returned(s.okText)
                  ELSE IF out = "error" THEN Returned(W_ScriptError)
                  ELSE Returned(W_CaughtError)
    /\ pc' = "done"
    /\ UNCHANGED <<req, helperVars>>

RunUnread == RunListing("unread", UnreadScript(req))
RunSearch == RunListing("search", SearchScript(req))
RunRead == RunListing("read", ReadScript(req))
RunCount == RunReturning("count", CountScript(req))
RunMove == RunReturning("move_email", MoveScript(req))
RunCreateFolder == RunReturning("create_folder", CreateFolderScript(req))
RunRenameFolder == RunReturning("rename_folder", RenameFolderScript(req))
RunDeleteFolder == RunReturning("delete_folder", DeleteFolderScript(req))
RunForward == RunReturning("forward", ForwardScript(req))

RunDraft ==
    RunReturning("draft", IF req.replyToMessageId THEN ReplyDraftScript(req)
                          ELSE DraftScript(req))

RunReply ==
    \/ /\ pc = "reply"
       /\ ReplyConflict(req) # <<>>
       /\ result' = Returned(ReplyConflict(req))
       /\ pc' = "done"
       /\ UNCHANGED <<req, script, log, helperVars>>
    \/ /\ ReplyConflict(req) = <<>>
       /\ RunReturning("reply", ReplyScript(req))

\* a method 1 that goes on to method 2 whatever its outcome
SendMethod1_AlwaysOn ==
    /\ pc = "send1"
    /\ Dispatch(SendScript1(req))
    /\ \E out \in Outcomes :
        IF out = "ok"
        THEN pc' = "send2" /\ result' = Returned(SendScript1(req).okText)
        ELSE pc' = "send2" /\ UNCHANGED result
    /\ UNCHANGED <<req, helperVars>>

\* sendEmail: method 1, then method 2 in its catch, then method 3 in the
\* catch of that; an "Error:" text is thrown into the same catch
SendMethod1 ==
    /\ pc = "send1"
    /\ Dispatch(SendScript1(req))
    /\ \E out \in Outcomes :
        IF out = "ok"
        THEN pc' = "done" /\ result' = Returned(SendScript1(req).okText)
        ELSE pc' = "send2" /\ UNCHANGED result
    /\ UNCHANGED <<req, helperVars>>

SendMethod2 ==
    /\ pc = "send2"
    /\ Dispatch(SendScript2(req))
    /\ \E out \in Outcomes :
        IF out = "ok"
        THEN pc' = "done" /\ result' = Returned(SendScript2(req).okText)
        ELSE pc' = "send3" /\ UNCHANGED result
    /\ UNCHANGED <<req, helperVars>>

SendMethod3 ==
    /\ pc = "send3"
    /\ Dispatch(SendScript3(req))
    /\ \E out \in Outcomes :
        result' = IF out = "ok" THEN Returned(SendMethod3Result)
                  ELSE Thrown(W_CouldNotSend)
    /\ pc' = "done"
    /\ UNCHANGED <<req, helperVars>>

Next ==
    \/ Call \/ CheckAccess
    \/ RunUnread \/ RunSearch \/ RunRead \/ RunCount
    \/ RunMove \/ RunCreateFolder \/ RunRenameFolder \/ RunDeleteFolder
    \/ SendMethod1 \/ SendMethod2 \/ SendMethod3
    \/ RunDraft \/ RunReply \/ RunForward

Spec == Init /\ [][Next]_vars

-----------------------------------------------------------------------------
(* index.ts: the CallTool request handler up to the call of the function   *)
(* of the operation: the argument guards and the checks of each case       *)
(*                                                                         *)
(* Of a request the model keeps the tool name, whether arguments came, the *)
(* operation, the set of the fields that are given with a truthy value,    *)
(* what the attachments field holds, and whether a field no tool knows     *)
(* comes with it.                                                          *)

MAIL_OPERATIONS ==
    {"unread", "search", "send", "draft", "reply", "forward", "folders", "read",
     "create_folder", "move_email", "rename_folder", "delete_folder", "count",
     "save_attachments", "list_folders", "empty_trash"}

CALENDAR_OPERATIONS ==
    {"today", "upcoming", "search", "create", "delete", "accept", "decline",
     "tentative", "propose_new_time"}

CONTACTS_OPERATIONS == {"list", "search"}

Given(a, field) == field \in a.given

isMailArgs(a) ==
    /\ a.operation \in MAIL_OPERATIONS
    /\ CASE a.operation = "search" -> Given(a, "searchTerm")
         [] a.operation = "send" ->
              Given(a, "to") /\ Given(a, "subject") /\ Given(a, "body")
         [] a.operation = "draft" ->
              IF Given(a, "replyToMessageId") THEN Given(a, "body")
              ELSE Given(a, "to") /\ Given(a, "subject") /\ Given(a, "body")
         [] a.operation = "reply" -> Given(a, "messageId") /\ Given(a, "replyBody")
         [] a.operation = "forward" -> Given(a, "messageId") /\ Given(a, "forwardTo")
         [] a.operation = "create_folder" -> Given(a, "name")
         [] a.operation = "move_email" ->
              Given(a, "messageId") /\ Given(a, "targetFolder")
         [] a.operation = "rename_folder" -> Given(a, "folder") /\ Given(a, "newName")
         [] a.operation = "delete_folder" -> Given(a, "folder")
         [] a.operation = "save_attachments" ->
              Given(a, "messageId") /\ Given(a, "destinationFolder")
         [] a.operation = "empty_trash" ->
              /\ Given(a, "preview") \/ Given(a, "confirm")
              /\ ~(Given(a, "preview") /\ Given(a, "confirm"))
         [] OTHER -> TRUE

isCalendarArgs(a) ==
    /\ a.operation \in CALENDAR_OPERATIONS
    /\ CASE a.operation = "search" -> Given(a, "searchTerm")
         [] a.operation = "create" ->
              Given(a, "subject") /\ Given(a, "start") /\ Given(a, "end")
         [] a.operation = "delete" ->
              Given(a, "deleteSubject") /\ Given(a, "deleteDate")
         [] a.operation \in {"accept", "decline", "tentative"} ->
              Given(a, "responseSubject") /\ Given(a, "responseDate")
         [] a.operation = "propose_new_time" ->
              /\ Given(a, "responseSubject") /\ Given(a, "responseDate")
              /\ Given(a, "proposedStart") /\ Given(a, "proposedEnd")
         [] OTHER -> TRUE

isContactsArgs(a) ==
    /\ a.operation \in CONTACTS_OPERATIONS
    /\ a.operation = "search" => Given(a, "searchTerm")

\* "" stands for no error thrown
NoError == ""

\* args.attachments && !Array.isArray(args.attachments)
BadAttachments(a) == a.attachments = "other"

\* The throw statements of the cases of outlook_mail, in the order of the code
MailCaseError(a) ==
    CASE a.operation = "search" /\ ~Given(a, "searchTerm") ->
           "Search term is required for search operation"
      [] a.operation = "send" ->
           IF ~Given(a, "to") \/ ~Given(a, "subject") \/ ~Given(a, "body")
           THEN "Recipient (to), subject, and body are required for send operation"
           ELSE IF BadAttachments(a) THEN "Attachments must be an array of file paths"
           ELSE NoError
      [] a.operation = "draft" ->
           IF Given(a, "replyToMessageId") /\ ~Given(a, "body")
           THEN "Body is required for reply draft operation"
           ELSE IF ~Given(a, "replyToMessageId")
                   /\ (~Given(a, "to") \/ ~Given(a, "subject") \/ ~Given(a, "body"))
           THEN "Recipient (to), subject, and body are required for draft operation (or use replyToMessageId for reply drafts)"
           ELSE IF BadAttachments(a) THEN "Attachments must be an array of file paths"
           ELSE NoError
      [] a.operation = "reply" /\ (~Given(a, "messageId") \/ ~Given(a, "replyBody")) ->
           "Message ID and replyBody are required for reply operation"
      [] a.operation = "forward" /\ (~Given(a, "messageId") \/ ~Given(a, "forwardTo")) ->
           "Message ID and forwardTo are required for forward operation"
      [] a.operation = "create_folder" /\ ~Given(a, "name") ->
           "Folder name is required for create_folder operation"
      [] a.operation = "move_email"
            /\ (~Given(a, "messageId") \/ ~Given(a, "targetFolder")) ->
           "Message ID and target folder are required for move_email operation"
      [] a.operation = "rename_folder"
            /\ (~Given(a, "folder") \/ ~Given(a, "newName")) ->
           "Folder and new name are required for rename_folder operation"
      [] a.operation = "delete_folder" /\ ~Given(a, "folder") ->
           "Folder is required for delete_folder operation"
      [] a.operation = "save_attachments" /\ ~Given(a, "messageId") ->
           "messageId is required for save_attachments operation"
      [] a.operation = "save_attachments" /\ Given(a, "messageId")
            /\ ~Given(a, "destinationFolder") ->
           "destinationFolder is required for save_attachments operation"
      [] a.operation = "empty_trash" /\ ~Given(a, "preview") /\ ~Given(a, "confirm") ->
           "empty_trash requires either preview: true or confirm: true"
      [] a.operation = "empty_trash" /\ Given(a, "preview") /\ Given(a, "confirm") ->
           "Cannot use both preview and confirm - use one at a time"
      [] a.operation \notin MAIL_OPERATIONS -> "Unknown mail operation: ${operation}"
      [] OTHER -> NoError

CalendarCaseError(a) ==
    CASE a.operation = "search" /\ ~Given(a, "searchTerm") ->
           "Search term is required for search operation"
      [] a.operation = "create"
            /\ (~Given(a, "subject") \/ ~Given(a, "start") \/ ~Given(a, "end")) ->
           "Subject, start time, and end time are required for create operation"
      [] a.operation = "delete"
            /\ (~Given(a, "deleteSubject") \/ ~Given(a, "deleteDate")) ->
           "deleteSubject and deleteDate are required for delete operation"
      [] a.operation = "accept"
            /\ (~Given(a, "responseSubject") \/ ~Given(a, "responseDate")) ->
           "responseSubject and responseDate are required for accept operation"
      [] a.operation = "decline"
            /\ (~Given(a, "responseSubject") \/ ~Given(a, "responseDate")) ->
           "responseSubject and responseDate are required for decline operation"
      [] a.operation = "tentative"
            /\ (~Given(a, "responseSubject") \/ ~Given(a, "responseDate")) ->
           "responseSubject and responseDate are required for tentative operation"
      [] a.operation = "propose_new_time"
            /\ (\/ ~Given(a, "responseSubject") \/ ~Given(a, "responseDate")
                \/ ~Given(a, "proposedStart") \/ ~Given(a, "proposedEnd")) ->
           "responseSubject, responseDate, proposedStart, and proposedEnd are required for propose_new_time operation"
      [] a.operation \notin CALENDAR_OPERATIONS ->
           "Unknown calendar operation: ${operation}"
      [] OTHER -> NoError

ContactsCaseError(a) ==
    CASE a.operation = "search" /\ ~Given(a, "searchTerm") ->
           "Search term is required for search operation"
      [] a.operation \notin CONTACTS_OPERATIONS ->
           "Unknown contacts operation: ${operation}"
      [] OTHER -> NoError

\* a handler whose checks let every empty_trash request through
HandlerError_TrashUnchecked(a) ==
    IF ~a.hasArgs THEN "No arguments provided"
    ELSE IF a.tool = "outlook_mail"
    THEN (IF a.operation = "empty_trash" THEN NoError
          ELSE IF ~isMailArgs(a) THEN "Invalid arguments for outlook_mail tool"
          ELSE MailCaseError(a))
    ELSE IF a.tool = "outlook_calendar"
    THEN (IF ~isCalendarArgs(a) THEN "Invalid arguments for outlook_calendar tool"
          ELSE CalendarCaseError(a))
    ELSE IF a.tool = "outlook_contacts"
    THEN (IF ~isContactsArgs(a) THEN "Invalid arguments for outlook_contacts tool"
          ELSE ContactsCaseError(a))
    ELSE NoError

\* a handler that calls the function of a request whose guard fails
HandlerError_GuardSkipped(a) == IF a.hasArgs THEN NoError ELSE "No arguments provided"

\* The message of the error the handler throws before it calls a function,
\* NoError when it throws none
HandlerError(a) ==
    IF ~a.hasArgs THEN "No arguments provided"
    ELSE IF a.tool = "outlook_mail"
    THEN (IF ~isMailArgs(a) THEN "Invalid arguments for outlook_mail tool"
          ELSE MailCaseError(a))
    ELSE IF a.tool = "outlook_calendar"
    THEN (IF ~isCalendarArgs(a) THEN "Invalid arguments for outlook_calendar tool"
          ELSE CalendarCaseError(a))
    ELSE IF a.tool = "outlook_contacts"
    THEN (IF ~isContactsArgs(a) THEN "Invalid arguments for outlook_contacts tool"
          ELSE ContactsCaseError(a))
    ELSE NoError

TOOLS == {"outlook_mail", "outlook_calendar", "outlook_contacts"}

\* The function the case of an operation calls
FunctionOf(a) ==
    IF a.tool = "outlook_mail" THEN
        CASE a.operation = "unread" -> "getUnreadEmails"
          [] a.operation = "search" -> "searchEmails"
          [] a.operation = "send" -> "sendEmail"
          [] a.operation = "draft" -> "createDraft"
          [] a.operation = "reply" -> "replyEmail"
          [] a.operation = "forward" -> "forwardEmail"
          [] a.operation = "folders" -> "getMailFolders"
          [] a.operation = "read" -> "readEmails"
          [] a.operation = "create_folder" -> "createFolder"
          [] a.operation = "move_email" -> "moveEmail"
          [] a.operation = "rename_folder" -> "renameFolder"
          [] a.operation = "delete_folder" -> "deleteFolder"
          [] a.operation = "count" -> "countEmails"
          [] a.operation = "save_attachments" -> "saveAttachments"
          [] a.operation = "list_folders" -> "listFolders"
          [] OTHER -> "emptyTrash"
    ELSE IF a.tool = "outlook_calendar" THEN
        CASE a.operation = "today" -> "getTodayEvents"
          [] a.operation = "upcoming" -> "getUpcomingEvents"
          [] a.operation = "search" -> "searchEvents"
          [] a.operation = "create" -> "createEvent"
          [] a.operation = "delete" -> "deleteEvent"
          [] a.operation = "propose_new_time" -> "proposeNewTime"
          [] OTHER -> "respondToMeeting"
    ELSE IF a.operation = "list" THEN "listContacts" ELSE "searchContacts"

\* the cases that answer  isError: result.startsWith("Error:")
FlagsErrorText(a) ==
    /\ a.tool = "outlook_mail"
    /\ a.operation \in {"draft", "reply", "forward", "create_folder", "move_email",
                        "rename_folder", "delete_folder", "count", "save_attachments"}

\* the functions that return the "Error: ..." text of their script
ReturnsErrorText(a) ==
    \/ FlagsErrorText(a)
    \/ /\ a.tool = "outlook_calendar"
       /\ a.operation \in {"accept", "decline", "tentative", "propose_new_time"}

\* the functions that throw the "Error: ..." text of their script
ThrowsErrorText(a) ==
    /\ a.tool = "outlook_mail"
    /\ a.operation \in {"unread", "search", "send", "read", "empty_trash"}

Response(isError, text) == [kind |-> "response", isError |-> isError, text |-> text]

\* The answer to a request whose function ran its script with the outcome:
\* the case's return statement, or the catch of the handler when the
\* function throws
FunctionResponse(a, outcome) ==
    IF outcome = "ok" THEN Response(FALSE, <<"${result}">>)
    ELSE IF outcome = "error" /\ ReturnsErrorText(a)
    THEN Response(FlagsErrorText(a), <<"Error: ${errMsg}">>)
    ELSE Response(TRUE, <<"Error: ", "${error.message}">>)

-----------------------------------------------------------------------------
(* The requests the handler validates, and its steps                       *)

\* the fields the guard and the case of an operation read
CheckedFields(tool, op) ==
    IF tool = "outlook_mail" THEN
        CASE op = "search" -> {"searchTerm"}
          [] op = "send" -> {"to", "subject", "body"}
          [] op = "draft" -> {"replyToMessageId", "to", "subject", "body"}
          [] op = "reply" -> {"messageId", "replyBody"}
          [] op = "forward" -> {"messageId", "forwardTo"}
          [] op = "create_folder" -> {"name"}
          [] op = "move_email" -> {"messageId", "targetFolder"}
          [] op = "rename_folder" -> {"folder", "newName"}
          [] op = "delete_folder" -> {"folder"}
          [] op = "save_attachments" -> {"messageId", "destinationFolder"}
          [] op = "empty_trash" -> {"preview", "confirm"}
          [] OTHER -> {}
    ELSE IF tool = "outlook_calendar" THEN
        CASE op = "search" -> {"searchTerm"}
          [] op = "create" -> {"subject", "start", "end"}
          [] op = "delete" -> {"deleteSubject", "deleteDate"}
          [] op \in {"accept", "decline", "tentative"} ->
               {"responseSubject", "responseDate"}
          [] op = "propose_new_time" ->
               {"responseSubject", "responseDate", "proposedStart", "proposedEnd"}
          [] OTHER -> {}
    ELSE IF op = "search" THEN {"searchTerm"} ELSE {}

\* an operation of the tool, a name no tool knows, or no operation at all
OperationNames(tool) ==
    (IF tool = "outlook_mail" THEN MAIL_OPERATIONS
     ELSE IF tool = "outlook_calendar" THEN CALENDAR_OPERATIONS
     ELSE CONTACTS_OPERATIONS) \cup {"bogus", ""}

AttachmentValues(tool, op) ==
    IF tool = "outlook_mail" /\ op \in {"send", "draft"}
    THEN {"absent", "array", "other"} ELSE {"absent"}

HandlerRequests ==
    {[tool |-> r[1], hasArgs |-> TRUE, operation |-> r[2], given |-> r[3],
      attachments |-> r[4], extra |-> x] :
        r \in UNION {{<<t, op, g, at>> : g \in SUBSET CheckedFields(t, op),
                                         at \in AttachmentValues(t, op)} :
                        t \in TOOLS, op \in OperationNames("outlook_mail")
                                            \cup OperationNames("outlook_calendar")},
        x \in BOOLEAN}
    \cup
    {[tool |-> t, hasArgs |-> h, operation |-> "list", given |-> {},
      attachments |-> "absent", extra |-> FALSE] :
        t \in TOOLS \cup {"outlook_tasks"}, h \in BOOLEAN}

ReceiveRequest ==
    /\ pc = "idle"
    /\ \E r \in HandlerRequests : req' = r
    /\ pc' = "handler"
    /\ UNCHANGED <<script, log, result, helperVars>>

\* The handler from its first line to the call of the function of the
\* operation; what it throws is answered by its catch
ValidateRequest ==
    /\ pc = "handler"
    /\ IF HandlerError(req) # NoError
       THEN /\ result' = Response(TRUE, <<"Error: ", HandlerError(req)>>)
            /\ pc' = "done"
            /\ UNCHANGED log
       ELSE IF req.tool \notin TOOLS
       THEN /\ result' = Response(TRUE, <<"Unknown tool: ${name}">>)
            /\ pc' = "done"
            /\ UNCHANGED log
       ELSE /\ log' = Append(log, FunctionOf(req))
            /\ pc' = "calling"
            /\ UNCHANGED result
    /\ UNCHANGED <<req, script, helperVars>>

\* The script of the function called runs through, returns the text of its
\* on error  branch where it has one, or raises; ret keeps which
FunctionReturns ==
    /\ pc = "calling"
    /\ \E outcome \in Outcomes :
          /\ outcome = "error" => ReturnsErrorText(req) \/ ThrowsErrorText(req)
          /\ ret' = <<outcome>>
          /\ result' = FunctionResponse(req, outcome)
    /\ pc' = "done"
    /\ UNCHANGED <<req, script, log, fn, arg>>

SpecHandler == Init /\ [][ReceiveRequest \/ ValidateRequest \/ FunctionReturns]_vars

-----------------------------------------------------------------------------
(* index.ts: the scan of a folder in the scripts of readEmails and         *)
(* searchEmails, with the date filter                                      *)
(*                                                                         *)
(* Instants are numbered so that day d runs from 2d, its 12:00:00 AM, to   *)
(* 2d + 1, its 11:59:59 PM.  A message is kept as its sent instant and     *)
(* whether its subject or content contains the search term; the records    *)
(* of the result are named by the places of their messages in the folder.  *)
(* Every message of the folder can be read.                                *)

\* set filterStartDate to date "M/D/YYYY 12:00:00 AM"
FilterStart(day) == 2 * day
\* set filterEndDate to date "M/D/YYYY 11:59:59 PM"
FilterEnd(day) == 2 * day + 1

\* dateChecks: the checks of the bounds that are given, joined by "and";
\* without a bound the message body is not wrapped in any check
DateChecks(a, sent) ==
    /\ a.startDate.defined => sent >= FilterStart(a.startDate.v)
    /\ a.endDate.defined => sent <= FilterEnd(a.endDate.v)

\* a scan that leaves the loop at the first message outside the range
RECURSIVE ReadLoop_ExitOutside(_, _, _)
ReadLoop_ExitOutside(a, i, found) ==
    IF i > Len(a.msgs) \/ Len(found) >= a.limit THEN found
    ELSE IF DateChecks(a, a.msgs[i].sent)
    THEN ReadLoop_ExitOutside(a, i + 1, Append(found, i))
    ELSE found

\* repeat with i from 1 to msgCount, of readEmails
RECURSIVE ReadLoop(_, _, _)
ReadLoop(a, i, found) ==
    IF i > Len(a.msgs) \/ Len(found) >= a.limit THEN found
    ELSE IF DateChecks(a, a.msgs[i].sent)
    THEN ReadLoop(a, i + 1, Append(found, i))
    ELSE ReadLoop(a, i + 1, found)

\* repeat with theMsg in folderMsgs, of searchEmails
RECURSIVE SearchLoop(_, _, _)
SearchLoop(a, i, found) ==
    IF i > Len(a.msgs) \/ Len(found) >= a.limit THEN found
    ELSE IF DateChecks(a, a.msgs[i].sent) /\ a.msgs[i].hasTerm
    THEN SearchLoop(a, i + 1, Append(found, i))
    ELSE SearchLoop(a, i + 1, found)

-----------------------------------------------------------------------------
(* Calls of the pure helpers: the input is drawn by Init, an action applies *)
(* the helper to it.                                                        *)

NoRet == <<>>

EscInputs == StrOver({"a", QUOTE, BACKSLASH}, MaxEscLen)

InitEscape == fn = "none" /\ arg \in EscInputs /\ ret = NoRet /\ MailIdle

ApplyEscape ==
    /\ fn = "none"
    /\ fn' = "escapeForAppleScript"
    /\ ret' = escapeForAppleScript(arg)
    /\ UNCHANGED <<arg, mailVars>>

SpecEscape == InitEscape /\ [][ApplyEscape]_vars

RcptInputs == StrOver({"a", " ", ",", "<", "@"}, MaxRcptLen)

InitRecipients == fn = "none" /\ arg \in RcptInputs /\ ret = NoRet /\ MailIdle

ApplyParseRecipients ==
    /\ fn = "none"
    /\ fn' = "parseRecipients"
    /\ ret' = parseRecipients(arg)
    /\ UNCHANGED <<arg, mailVars>>

SpecRecipients == InitRecipients /\ [][ApplyParseRecipients]_vars

\* Folder identifiers: every text over a small alphabet, and the inbox names
PathInputs ==
    StrOver({"A", "B", "/"}, MaxPathLen)
        \cup {INBOX_NAME, <<"i", "n", "b", "o", "x">>, <<"I", "N", "B", "O", "X">>,
              INBOX_NAME \o <<"/", "A">>,
              <<"A", "/", "B", "/", "C", "/", "D">>}

InitFolder == fn = "none" /\ arg \in PathInputs /\ ret = NoRet /\ MailIdle

ApplyBuildFolderRef ==
    /\ fn = "none"
    /\ fn' = "buildFolderRef"
    /\ ret' = buildFolderRef(arg)
    /\ UNCHANGED <<arg, mailVars>>

ApplyBuildNestedFolderRef ==
    /\ fn = "none"
    /\ fn' = "buildNestedFolderRef"
    /\ ret' = buildNestedFolderRef(arg)
    /\ UNCHANGED <<arg, mailVars>>

SpecFolder == InitFolder /\ [][ApplyBuildFolderRef \/ ApplyBuildNestedFolderRef]_vars

\* Messages of the mail client: field texts without any sentinel, with
\* white space to trim, blank fields, a line break and a "<" next to a sentinel
SampleMessages ==
    {[subject |-> su, id |-> i, sender |-> <<"f", " ">>, date |-> <<" ", "d">>,
      content |-> c] :
        su \in {<<"S">>, <<" ", "S", "<">>, <<" ">>},
        i \in {Undefined, Defined(<<"7", " ">>)},
        c \in {<<"a", "\n", "<">>, <<>>}}

MessageLists == UNION {[1..n -> SampleMessages] : n \in 0..MaxRecords}

InitParse ==
    /\ fn = "none"
    /\ \E ms \in MessageLists : arg = [src |-> ms, raw |-> WireText(ms)]
    /\ ret = NoRet
    /\ MailIdle

ApplyParseEmailOutput ==
    /\ fn = "none"
    /\ fn' = "parseEmailOutput"
    /\ ret' = parseEmailOutput(arg.raw)
    /\ UNCHANGED <<arg, mailVars>>

SpecParse == InitParse /\ [][ApplyParseEmailOutput]_vars

\* Any text the parser may be handed: up to MaxPieces sentinels, letters and
\* spaces in any order, and the null or undefined a caller without types passes
Pieces ==
    {MSG_TOK, ID_TOK, FROM_TOK, DATE_TOK, CONTENT_TOK, ENDMSG_TOK, <<"x">>, <<" ">>}

PieceLists == UNION {[1..n -> Pieces] : n \in 0..MaxPieces}

\* if (!raw || raw.trim() === "") return []  for a value that may be null
ParseNullable(raw) == IF raw.defined THEN parseEmailOutput(raw.v) ELSE <<>>

InitParseRaw ==
    /\ fn = "none"
    /\ \/ \E ps \in PieceLists : arg = [src |-> ps, raw |-> Defined(Concat(ps))]
       \/ arg = [src |-> <<>>, raw |-> Undefined]
    /\ ret = NoRet
    /\ MailIdle

ApplyParseRaw ==
    /\ fn = "none"
    /\ fn' = "parseEmailOutput"
    /\ ret' = ParseNullable(arg.raw)
    /\ UNCHANGED <<arg, mailVars>>

SpecParseRaw == InitParseRaw /\ [][ApplyParseRaw]_vars

\* Bodies: every text of up to MaxHtmlLen characters over a small alphabet,
\* and the bodies the tests of detectHtml name
HTML_SAMPLES ==
    {<<"<", "b", "r", "/", ">">>,
     <<"<", "D", "I", "V", ">", "x", "<", "/", "d", "i", "v", ">">>,
     <<"5", " ", "<", " ", "1", "0">>,
     <<"<", "i", "n", "v", "a", "l", "i", "d", ">", "n", "o", "t", " ", "a", " ", "t", "a", "g">>,
     <<"<", "h", "1", ">", "T">>,
     <<"<", "h", "7", ">", "T">>,
     <<"<", "i", "m", "g", " ", "s", "r", "c">>,
     <<"<", "P", ">", "U">>,
     <<"<", "s", "t", "r", "o", "n", "g", ">">>,
     <<"<", "e", "m", "\t", "x">>}

HtmlInputs == StrOver({"<", ">", "/", " ", "b", "R", "x"}, MaxHtmlLen) \cup HTML_SAMPLES

InitHtml ==
    /\ fn = "none"
    /\ arg \in HtmlInputs
    /\ ret = NoRet
    /\ MailIdle

ApplyDetectHtml ==
    /\ fn = "none"
    /\ fn' = "detectHtml"
    /\ ret' = detectHtml(arg)
    /\ UNCHANGED <<arg, mailVars>>

SpecHtml == InitHtml /\ [][ApplyDetectHtml]_vars

\* Folders of up to MaxMsgs messages sent at the last instant of day 1, the
\* first and the last of day 2 and the first of day 3, in any order; a limit;
\* a start date, an end date or both, among days 2 and 3
FolderMessages ==
    UNION {[1..n -> [sent : {3, 4, 5, 6}, hasTerm : BOOLEAN]] : n \in 0..MaxMsgs}

\* startDate?: string, endDate?: string, "YYYY-MM-DD" kept as the day's number
NoDate == [defined |-> FALSE, v |-> 0]
OnDay(d) == [defined |-> TRUE, v |-> d]

FilterDays == {NoDate, OnDay(2), OnDay(3)}

InitScan ==
    /\ fn = "none"
    /\ \E ms \in FolderMessages, l \in {0, 1, 2}, sd \in FilterDays, ed \in FilterDays :
          /\ sd.defined \/ ed.defined
          /\ arg = [msgs |-> ms, limit |-> l, startDate |-> sd, endDate |-> ed]
    /\ ret = NoRet
    /\ MailIdle

ApplyReadEmails ==
    /\ fn = "none"
    /\ fn' = "readEmails"
    /\ ret' = ReadLoop(arg, 1, <<>>)
    /\ UNCHANGED <<arg, mailVars>>

ApplySearchEmails ==
    /\ fn = "none"
    /\ fn' = "searchEmails"
    /\ ret' = SearchLoop(arg, 1, <<>>)
    /\ UNCHANGED <<arg, mailVars>>

SpecScan == InitScan /\ [][ApplyReadEmails \/ ApplySearchEmails]_vars

-----------------------------------------------------------------------------
(* index.ts: listFolders.  The script walks the folder trees of the        *)
(* exchange accounts with a worklist and returns one line of text per      *)
(* folder; the function splits the text the script prints and parses each  *)
(* line.                                                                   *)
(*                                                                         *)
(* The folders of a tree are numbered 1..n, a folder after the folder that *)
(* holds it and the folders of the first account before those of the       *)
(* second; `mail folders of` gives folders in the order of their numbers.  *)
(* holder[i] is 0 for a top-level folder.  The folders hold no messages,   *)
(* and checkOutlookAccess succeeds.                                        *)

DELETED_ITEMS_NAME ==
    <<"D", "e", "l", "e", "t", "e", "d", " ", "I", "t", "e", "m", "s">>
TRASH_NAME == <<"T", "r", "a", "s", "h">>
SENT_ITEMS_NAME == <<"S", "e", "n", "t", " ", "I", "t", "e", "m", "s">>
SENT_NAME == <<"S", "e", "n", "t">>
DRAFTS_NAME == <<"D", "r", "a", "f", "t", "s">>
JUNK_EMAIL_NAME == <<"J", "u", "n", "k", " ", "E", "m", "a", "i", "l">>
JUNK_NAME == <<"J", "u", "n", "k">>
ARCHIVE_NAME == <<"A", "r", "c", "h", "i", "v", "e">>

\* AppleScript's `a is b` on texts, which does not consider case
TextIs(a, b) ==
    /\ Len(a) = Len(b)
    /\ \A i \in 1..Len(a) : FoldCase(a[i]) = FoldCase(b[i])

\* set isDeletedItems to folderName is "Deleted Items" or folderName is "Trash"
IsDeletedItems(folderName) ==
    TextIs(folderName, DELETED_ITEMS_NAME) \/ TextIs(folderName, TRASH_NAME)

\* set specialType to ...
SpecialType(folderName) ==
    IF TextIs(folderName, INBOX_NAME) THEN <<"i", "n", "b", "o", "x">>
    ELSE IF TextIs(folderName, SENT_ITEMS_NAME) \/ TextIs(folderName, SENT_NAME)
    THEN <<"s", "e", "n", "t">>
    ELSE IF TextIs(folderName, DRAFTS_NAME) THEN <<"d", "r", "a", "f", "t", "s">>
    ELSE IF IsDeletedItems(folderName) THEN <<"t", "r", "a", "s", "h">>
    ELSE IF TextIs(folderName, JUNK_EMAIL_NAME) \/ TextIs(folderName, JUNK_NAME)
    THEN <<"j", "u", "n", "k">>
    ELSE IF TextIs(folderName, ARCHIVE_NAME)
    THEN <<"a", "r", "c", "h", "i", "v", "e">>
    ELSE <<"n", "u", "l", "l">>

\* set countInfo to "," & folderCount & "," & unreadCount, of a folder
\* without messages; "" when the counts are not asked for
CountInfo(includeCounts) ==
    IF includeCounts THEN <<",", "0", ",", "0">> ELSE <<>>

\* the texts of ss with sep between them
RECURSIVE JoinWith(_, _)
JoinWith(ss, sep) ==
    IF ss = <<>> THEN <<>>
    ELSE IF Len(ss) = 1 THEN Head(ss)
    ELSE Head(ss) \o sep \o JoinWith(Tail(ss), sep)

\* the two replaceText calls on a path item: backslashes, then quotes
PathItem(name) ==
    ReplaceAll(ReplaceAll(name, BACKSLASH, <<BACKSLASH, BACKSLASH>>),
               QUOTE, <<BACKSLASH, QUOTE>>)

\* set pathJSON to "[" ... "]"
PathJSON(currentPath) ==
    <<"[">>
    \o JoinWith([i \in 1..Len(currentPath) |->
                    <<QUOTE>> \o PathItem(currentPath[i]) \o <<QUOTE>>], <<",">>)
    \o <<"]">>

\* set folderInfo to pathJSON & "|" & accountEmail & "|" & specialType & countInfo
FolderInfoLine(currentPath, accountEmail, folderName, includeCounts) ==
    PathJSON(currentPath) \o <<"|">> \o accountEmail \o <<"|">>
    \o SpecialType(folderName) \o CountInfo(includeCounts)

\* mail folders of a holder (0: of the account itself), as their numbers
RECURSIVE FoldersFrom(_, _, _, _)
FoldersFrom(t, i, holder, accountEmail) ==
    IF i > Len(t.holder) THEN <<>>
    ELSE (IF t.holder[i] = holder /\ t.account[i] = accountEmail
          THEN <<i>> ELSE <<>>)
         \o FoldersFrom(t, i + 1, holder, accountEmail)

MailFoldersOf(t, holder, accountEmail) == FoldersFrom(t, 1, holder, accountEmail)

\* a worklist item {theFolder, currentPath}
WorkItem(theFolder, currentPath) == [folder |-> theFolder, path |-> currentPath]

\* the worklist of an account's top-level folders
TopLevelItems(t, accountEmail) ==
    LET fs == MailFoldersOf(t, 0, accountEmail) IN
    [k \in 1..Len(fs) |-> WorkItem(fs[k], <<t.name[fs[k]]>>)]

\* the items the subfolders of a work item add to the worklist
SubfolderItems(t, workItem, accountEmail) ==
    LET fs == MailFoldersOf(t, workItem.folder, accountEmail) IN
    [k \in 1..Len(fs) |-> WorkItem(fs[k], Append(workItem.path, t.name[fs[k]]))]

(* JSON.parse of a text that is an array of strings, with the white space  *)
(* JSON allows and the escapes of quote and backslash, the two the script  *)
(* writes.  Any other text fails to parse.                                 *)

JsonFail == [ok |-> FALSE, v |-> <<>>, next |-> 0]

IsJsonSpace(c) == c \in {" ", "\n", "\t", "\r"}

RECURSIVE SkipJsonSpace(_, _)
SkipJsonSpace(s, i) ==
    IF i <= Len(s) /\ IsJsonSpace(s[i]) THEN SkipJsonSpace(s, i + 1) ELSE i

\* the characters of a string after its opening quote, from place i on
RECURSIVE JsonChars(_, _, _)
JsonChars(s, i, acc) ==
    IF i > Len(s) THEN JsonFail
    ELSE IF s[i] = QUOTE THEN [ok |-> TRUE, v |-> acc, next |-> i + 1]
    ELSE IF s[i] = BACKSLASH
    THEN IF i + 1 <= Len(s) /\ s[i + 1] \in {QUOTE, BACKSLASH}
         THEN JsonChars(s, i + 2, Append(acc, s[i + 1]))
         ELSE JsonFail
    ELSE IF s[i] \in {"\n", "\t", "\r"} THEN JsonFail
    ELSE JsonChars(s, i + 1, Append(acc, s[i]))

\* the elements of an array from place i on, where an element must start
RECURSIVE JsonElements(_, _, _)
JsonElements(s, i, acc) ==
    LET j == SkipJsonSpace(s, i) IN
    IF j > Len(s) \/ s[j] # QUOTE THEN JsonFail
    ELSE LET str == JsonChars(s, j + 1, <<>>) IN
         IF ~str.ok THEN JsonFail
         ELSE LET k == SkipJsonSpace(s, str.next) IN
              IF k > Len(s) THEN JsonFail
              ELSE IF s[k] = "," THEN JsonElements(s, k + 1, Append(acc, str.v))
              ELSE IF s[k] = "]"
              THEN [ok |-> TRUE, v |-> Append(acc, str.v), next |-> k + 1]
              ELSE JsonFail

JsonParse(s) ==
    LET i == SkipJsonSpace(s, 1) IN
    IF i > Len(s) \/ s[i] # "[" THEN JsonFail
    ELSE LET j == SkipJsonSpace(s, i + 1) IN
         LET arr == IF j <= Len(s) /\ s[j] = "]"
                    THEN [ok |-> TRUE, v |-> <<>>, next |-> j + 1]
                    ELSE JsonElements(s, j, <<>>) IN
         IF arr.ok /\ SkipJsonSpace(s, arr.next) > Len(s) THEN arr ELSE JsonFail

DIGITS == <<"0", "1", "2", "3", "4", "5", "6", "7", "8", "9">>

IsDigit(c) == \E d \in 1..Len(DIGITS) : DIGITS[d] = c

DigitValue(c) == (CHOOSE d \in 1..Len(DIGITS) : DIGITS[d] = c) - 1

RECURSIVE LeadingDigits(_, _, _)
LeadingDigits(s, i, n) ==
    IF i <= Len(s) /\ IsDigit(s[i])
    THEN LeadingDigits(s, i + 1, 10 * n + DigitValue(s[i]))
    ELSE n

\* parseInt(s, 10) || 0 of a text without a sign
ParseIntOrZero(s) == LeadingDigits(TrimLeft(s), 1, 0)

NULL_TEXT == <<"n", "u", "l", "l">>

\* the body of the loop over folderStrings: the entries one line adds
ParseFolderStr(folderStr, includeCounts) ==
    IF Trim(folderStr) = <<>> THEN <<>>
    ELSE LET parts == SplitChar(folderStr, "|") IN
         IF Len(parts) < 3 THEN <<>>
         ELSE LET path == JsonParse(parts[1])
                  specialParts == SplitChar(parts[3], ",")
                  info == [path |-> path.v,
                           account |-> parts[2],
                           specialFolder |->
                               IF specialParts[1] = NULL_TEXT
                               THEN Undefined ELSE Defined(specialParts[1]),
                           counted |-> includeCounts /\ Len(specialParts) >= 3,
                           count |-> IF includeCounts /\ Len(specialParts) >= 3
                                     THEN ParseIntOrZero(specialParts[2]) ELSE 0,
                           unreadCount |-> IF includeCounts /\ Len(specialParts) >= 3
                                           THEN ParseIntOrZero(specialParts[3]) ELSE 0]
              IN IF path.ok THEN <<info>> ELSE <<>>

\* for (const folderStr of folderStrings)
RECURSIVE ParseFolderStrings(_, _)
ParseFolderStrings(folderStrings, includeCounts) ==
    IF folderStrings = <<>> THEN <<>>
    ELSE ParseFolderStr(Head(folderStrings), includeCounts)
         \o ParseFolderStrings(Tail(folderStrings), includeCounts)

LIST_SEPARATOR == <<",", " ">>

\* the text osascript prints for the list the script returns
ListText(folderList) == JoinWith(folderList, LIST_SEPARATOR)

\* result.split(", ") and the loop over the pieces
ParseFolderList(text, includeCounts) ==
    ParseFolderStrings(SplitStr(text, LIST_SEPARATOR), includeCounts)

(* The walk, a step at a time *)

ACCOUNT_1 == <<"a", "@", "x">>
ACCOUNT_2 == <<"b", "@", "x">>

\* exchange accounts
EXCHANGE_ACCOUNTS == <<ACCOUNT_1, ACCOUNT_2>>

\* Names of folders: the trash, one with a quote and a backslash, one with
\* a comma and a space
QUOTED_NAME == <<QUOTE, BACKSLASH>>
COMMA_NAME == <<"x", ",", " ", "y">>

FolderNames == {TRASH_NAME, QUOTED_NAME, COMMA_NAME}

\* a folder is held by the account or by a folder numbered before it
Holders(n) == {h \in [1..n -> 0..(n - 1)] : \A i \in 1..n : h[i] < i}

\* a folder is in the account of its holder, and the folders of the first
\* account are numbered before those of the second
AccountsOf(h) ==
    {ac \in [1..Len(h) -> {ACCOUNT_1, ACCOUNT_2}] :
        /\ \A i \in 1..Len(h) : h[i] # 0 => ac[i] = ac[h[i]]
        /\ \A i, j \in 1..Len(h) : i < j /\ ac[i] = ACCOUNT_2 => ac[j] = ACCOUNT_2}

TreesOver(h) ==
    {[holder |-> h, name |-> nm, account |-> ac] :
        nm \in [1..Len(h) -> FolderNames], ac \in AccountsOf(h)}

FolderTrees == UNION {TreesOver(h) : h \in UNION {Holders(n) : n \in 1..MaxTreeSize}}

\* account?: string, "" when absent
AccountFilters == {<<>>, ACCOUNT_1}

\* excludeDeleted?: boolean, of the request
ExcludeDeletedArgs == {"absent", "true", "false"}

\* excludeDeleted: args.excludeDeleted !== false
ExcludeDeleted(a) == a.excludeDeleted # "false"

InitListFolders ==
    /\ fn = "none"
    /\ \E t \in FolderTrees, ic \in BOOLEAN, ed \in ExcludeDeletedArgs, af \in AccountFilters :
          arg = [tree |-> t, includeCounts |-> ic, excludeDeleted |-> ed, account |-> af]
    /\ ret = NoRet
    /\ MailIdle

Walking == fn = "listFolders" /\ ret.phase = "accounts"

\* the call: the script starts with an empty folderList, before the accounts
StartListFolders ==
    /\ fn = "none"
    /\ fn' = "listFolders"
    /\ ret' = [phase |-> "accounts", accounts |-> EXCHANGE_ACCOUNTS,
               accountEmail |-> <<>>, worklist |-> <<>>, folderList |-> <<>>,
               text |-> <<>>, folders |-> <<>>]
    /\ UNCHANGED <<arg, mailVars>>

\* if accountFilter is not "" and accountEmail is not accountFilter: skip
SkipAccount ==
    /\ Walking
    /\ ret.accounts # <<>>
    /\ arg.account # <<>> /\ ~TextIs(Head(ret.accounts), arg.account)
    /\ ret' = [ret EXCEPT !.accounts = Tail(@)]
    /\ UNCHANGED <<fn, arg, mailVars>>

\* else: the worklist is set to the account's top-level folders
EnterAccount ==
    /\ Walking
    /\ ret.accounts # <<>>
    /\ ~(arg.account # <<>> /\ ~TextIs(Head(ret.accounts), arg.account))
    /\ LET wl == TopLevelItems(arg.tree, Head(ret.accounts)) IN
       ret' = [ret EXCEPT !.accounts = Tail(@),
                          !.accountEmail = Head(ret.accounts),
                          !.worklist = wl,
                          !.phase = IF wl = <<>> THEN "accounts" ELSE "worklist"]
    /\ UNCHANGED <<fn, arg, mailVars>>

\* a round that adds the subfolders of every folder
WorklistRound_KeepSubfolders(t, r, excludeDeletedItems, includeCounts) ==
    LET workItem == Head(r.worklist)
        folderInfo == FolderInfoLine(workItem.path, r.accountEmail,
                                     t.name[workItem.folder], includeCounts)
        wl == Tail(r.worklist) \o SubfolderItems(t, workItem, r.accountEmail)
    IN [r EXCEPT !.worklist = wl,
                 !.folderList = Append(@, folderInfo),
                 !.phase = IF wl = <<>> THEN "accounts" ELSE "worklist"]

\* one round of `repeat while (count of worklist) > 0`
WorklistRound(t, r, excludeDeletedItems, includeCounts) ==
    LET workItem == Head(r.worklist)
        folderName == t.name[workItem.folder]
        folderInfo == FolderInfoLine(workItem.path, r.accountEmail, folderName,
                                     includeCounts)
        rest == Tail(r.worklist)
        wl == IF ~(IsDeletedItems(folderName) /\ excludeDeletedItems)
              THEN rest \o SubfolderItems(t, workItem, r.accountEmail)
              ELSE rest
    IN [r EXCEPT !.worklist = wl,
                 !.folderList = Append(@, folderInfo),
                 !.phase = IF wl = <<>> THEN "accounts" ELSE "worklist"]

ProcessWorkItem ==
    /\ fn = "listFolders" /\ ret.phase = "worklist"
    /\ ret' = WorklistRound(arg.tree, ret, ExcludeDeleted(arg), arg.includeCounts)
    /\ UNCHANGED <<fn, arg, mailVars>>

\* return folderList: the script ends and its list is printed
ReturnFolderList ==
    /\ Walking
    /\ ret.accounts = <<>>
    /\ ret' = [ret EXCEPT !.phase = "returned", !.text = ListText(ret.folderList)]
    /\ UNCHANGED <<fn, arg, mailVars>>

\* the function parses the text and returns folders
ParseResult ==
    /\ fn = "listFolders" /\ ret.phase = "returned"
    /\ ret' = [ret EXCEPT !.phase = "done",
                          !.folders = ParseFolderList(ret.text, arg.includeCounts)]
    /\ UNCHANGED <<fn, arg, mailVars>>

NextListFolders ==
    \/ StartListFolders
    \/ SkipAccount
    \/ EnterAccount
    \/ ProcessWorkItem
    \/ ReturnFolderList
    \/ ParseResult

SpecListFolders == InitListFolders /\ [][NextListFolders]_vars

-----------------------------------------------------------------------------
(* index.ts: empty_trash, from the guard of the handler to its answer.     *)
(*                                                                         *)
(* The Deleted Items folder is kept as its messages 1..n with, per         *)
(* message, whether `permanently delete` succeeds on it; msgs is the list  *)
(* the script takes of them before its loop, and every message has size 1. *)
(* checkOutlookAccess succeeds.                                            *)

\* preview?: boolean, confirm?: boolean as a request gives them: not at
\* all, true, false, or a value that is truthy and no boolean ("true", 1)
FlagValues == {"absent", "true", "false", "truthy"}

\* !!value
Truthy(v) == v \in {"true", "truthy"}

\* the empty_trash checks of isMailArgs, and again of the case
TrashFlagsValid(a) ==
    /\ Truthy(a.preview) \/ Truthy(a.confirm)
    /\ ~(Truthy(a.preview) /\ Truthy(a.confirm))

\* emptyTrash(args.preview === true): preview mode or execute mode
TrashMode(a) == IF a.preview = "true" THEN "preview" ELSE "execute"

\* a number as string
RECURSIVE NumberText(_)
NumberText(n) ==
    IF n < 10 THEN <<DIGITS[n + 1]>>
    ELSE NumberText(n \div 10) \o <<DIGITS[(n % 10) + 1]>>

ERROR_PREFIX == <<"E", "r", "r", "o", "r", ":">>

\* "Error: " & errMsg
SCRIPT_ERROR_TEXT == ERROR_PREFIX \o <<" ", "e">>

\* String.prototype.startsWith
StartsWith(s, prefix) ==
    Len(s) >= Len(prefix) /\ SubSeq(s, 1, Len(prefix)) = prefix

ALREADY_EMPTY == "Deleted Items folder is already empty"

\* the text of the preview script for a folder of n messages
PreviewText(n) ==
    IF n = 0 THEN <<"0", "|", "|", "|">>
    ELSE NumberText(n) \o <<"|", "D", "|", "D", "|">> \o NumberText(n)

\* what emptyTrash makes of the text of the preview script
PreviewResult(text) ==
    LET parts == SplitChar(text, "|")
        itemCount == LeadingDigits(parts[1], 1, 0)
    IN IF itemCount = 0
       THEN [preview |-> TRUE, itemCount |-> 0, message |-> ALREADY_EMPTY]
       ELSE [preview |-> TRUE, itemCount |-> itemCount,
             oldestItem |-> parts[2], newestItem |-> parts[3],
             totalSizeBytes |-> ParseIntOrZero(parts[4])]

\* what emptyTrash makes of the text of the execute script
ExecuteResult(text) ==
    LET deleted == LeadingDigits(text, 1, 0) IN
    [itemCount |-> deleted, deleted |-> deleted,
     message |-> IF deleted = 0 THEN ALREADY_EMPTY
                 ELSE "Permanently deleted ${deleted} items from Deleted Items"]

\* a loop that ends at the first message it cannot delete
DeleteRound_StopAtFailure(r, deletable) ==
    LET msg == Head(r.msgs) IN
    IF deletable[msg]
    THEN [r EXCEPT !.msgs = Tail(@), !.attempted = Append(@, msg),
                   !.folder = @ \ {msg}, !.deletedCount = @ + 1]
    ELSE [r EXCEPT !.msgs = <<>>, !.attempted = Append(@, msg)]

\* one round of `repeat with msg in msgs`: try permanently delete msg
DeleteRound(r, deletable) ==
    LET msg == Head(r.msgs) IN
    IF deletable[msg]
    THEN [r EXCEPT !.msgs = Tail(@), !.attempted = Append(@, msg),
                   !.folder = @ \ {msg}, !.deletedCount = @ + 1]
    ELSE [r EXCEPT !.msgs = Tail(@), !.attempted = Append(@, msg)]

TrashRequests ==
    {[preview |-> p, confirm |-> c, deletable |-> d] :
        p \in FlagValues, c \in FlagValues,
        d \in UNION {[1..n -> BOOLEAN] : n \in 0..MaxTrashItems}}

InitTrash ==
    /\ fn = "none"
    /\ arg \in TrashRequests
    /\ ret = NoRet
    /\ MailIdle

NoTrashRun ==
    [phase |-> "script", mode |-> "none", dispatched |-> <<>>, msgs |-> <<>>,
     attempted |-> <<>>, deletedCount |-> 0, folder |-> {}, text |-> <<>>,
     answer |-> NoResult]

\* the guard of the handler and the checks of the case; emptyTrash is called
\* and its script is written
ValidateEmptyTrash ==
    /\ fn = "none"
    /\ IF TrashFlagsValid(arg)
       THEN /\ fn' = "emptyTrash"
            /\ ret' = [NoTrashRun EXCEPT !.mode = TrashMode(arg),
                                         !.folder = DOMAIN arg.deletable]
       ELSE /\ fn' = "rejected"
            /\ ret' = [NoTrashRun EXCEPT
                          !.phase = "done",
                          !.folder = DOMAIN arg.deletable,
                          !.answer = Response(TRUE,
                              <<"Error: ", "Invalid arguments for outlook_mail tool">>)]
    /\ UNCHANGED <<arg, mailVars>>

\* the script fails outside the loop: on error errMsg return "Error: " & errMsg
TrashScriptFails ==
    /\ fn = "emptyTrash" /\ ret.phase = "script"
    /\ ret' = [ret EXCEPT !.phase = "returned", !.dispatched = <<ret.mode>>,
                          !.text = SCRIPT_ERROR_TEXT]
    /\ UNCHANGED <<fn, arg, mailVars>>

\* the preview script runs through
RunPreviewScript ==
    /\ fn = "emptyTrash" /\ ret.phase = "script" /\ ret.mode = "preview"
    /\ ret' = [ret EXCEPT !.phase = "returned", !.dispatched = <<"preview">>,
                          !.text = PreviewText(Cardinality(ret.folder))]
    /\ UNCHANGED <<fn, arg, mailVars>>

\* the execute script up to its loop: return "0" for an empty folder
StartExecuteScript ==
    /\ fn = "emptyTrash" /\ ret.phase = "script" /\ ret.mode = "execute"
    /\ ret' = IF Len(arg.deletable) = 0
              THEN [ret EXCEPT !.phase = "returned", !.dispatched = <<"execute">>,
                               !.text = <<"0">>]
              ELSE [ret EXCEPT !.phase = "loop", !.dispatched = <<"execute">>,
                               !.msgs = [i \in 1..Len(arg.deletable) |-> i]]
    /\ UNCHANGED <<fn, arg, mailVars>>

DeleteMessage ==
    /\ fn = "emptyTrash" /\ ret.phase = "loop" /\ ret.msgs # <<>>
    /\ ret' = DeleteRound(ret, arg.deletable)
    /\ UNCHANGED <<fn, arg, mailVars>>

\* return deletedCount as string
ExecuteScriptReturns ==
    /\ fn = "emptyTrash" /\ ret.phase = "loop" /\ ret.msgs = <<>>
    /\ ret' = [ret EXCEPT !.phase = "returned", !.text = NumberText(ret.deletedCount)]
    /\ UNCHANGED <<fn, arg, mailVars>>

\* emptyTrash returns its result or throws the error text, and the case
\* answers
EmptyTrashReturns ==
    /\ fn = "emptyTrash" /\ ret.phase = "returned"
    /\ ret' = [ret EXCEPT
                  !.phase = "done",
                  !.answer =
                      IF StartsWith(ret.text, ERROR_PREFIX)
                      THEN Response(TRUE, <<"Error: ", ret.text>>)
                      ELSE Response(FALSE, IF ret.mode = "preview"
                                           THEN PreviewResult(ret.text)
                                           ELSE ExecuteResult(ret.text))]
    /\ UNCHANGED <<fn, arg, mailVars>>

NextTrash ==
    \/ ValidateEmptyTrash
    \/ TrashScriptFails
    \/ RunPreviewScript
    \/ StartExecuteScript
    \/ DeleteMessage
    \/ ExecuteScriptReturns
    \/ EmptyTrashReturns

SpecTrash == InitTrash /\ [][NextTrash]_vars

-----------------------------------------------------------------------------
(* index.ts: tool invocations served side by side.  The handler is an      *)
(* async function the server calls for every request it reads: an          *)
(* invocation runs from one await to the next without interruption, and    *)
(* while it awaits runAppleScript another invocation may start or go on.   *)
(* A step of an invocation is the return of the script it awaits together  *)
(* with the code up to its next await, the dispatch of the next script     *)
(* included.  Outlook may start or quit at any time.                       *)

Invocations == 1..MaxInvocations

\* the positions of an invocation at which a script of its own is in flight
SCRIPT_POSITIONS == {"query1", "query2", "activate", "operation"}

HandlerRequest(op, given) ==
    [tool |-> "outlook_mail", hasArgs |-> TRUE, operation |-> op, given |-> given,
     attachments |-> "absent", extra |-> FALSE]

\* a send, a send without its fields, an empty_trash with both flags and
\* with none, a reply, and a reply that overrides and adds TO recipients
ServedRequests ==
    {HandlerRequest("send", {"to", "subject", "body"}),
     HandlerRequest("send", {}),
     HandlerRequest("empty_trash", {"preview", "confirm"}),
     HandlerRequest("empty_trash", {}),
     HandlerRequest("reply", {"messageId", "replyBody"}),
     HandlerRequest("reply", {"messageId", "replyBody", "replyTo", "addTo"})}

\* the conflict checks of replyEmail, on the fields a request gives
GivenReplyConflict(a) ==
    /\ a.operation = "reply"
    /\ \/ Given(a, "replyTo") /\ (Given(a, "addTo") \/ Given(a, "removeTo"))
       \/ Given(a, "replyCc") /\ (Given(a, "addCc") \/ Given(a, "removeCc"))
       \/ Given(a, "replyBcc") /\ (Given(a, "addBcc") \/ Given(a, "removeBcc"))

NotStarted == [pc |-> "idle", calls |-> <<>>, sawDown |-> FALSE, answer |-> "none"]

\* an invocation dispatches a script and awaits it
Awaiting(v, kind) == [v EXCEPT !.pc = kind, !.calls = Append(@, kind)]

\* an invocation answers
Answered(v, answer) == [v EXCEPT !.pc = "done", !.answer = answer]

\* checkOutlookAccess has thrown: the function throws, the handler answers
AccessFailed(v) == Answered(v, "Error: Cannot access Microsoft Outlook")

\* checkOutlookAccess has returned true: the function goes on, replyEmail
\* with its conflict checks, to the dispatch of the script of the operation
AfterAccess(v, a) ==
    IF GivenReplyConflict(a) THEN Answered(v, "Error: Cannot use")
    ELSE Awaiting(v, "operation")

InitServer ==
    /\ fn = "server"
    /\ arg \in [Invocations -> ServedRequests]
    /\ ret = [running |-> TRUE, inv |-> [i \in Invocations |-> NotStarted]]
    /\ MailIdle

OutlookStarts ==
    /\ fn = "server" /\ ~ret.running
    /\ ret' = [ret EXCEPT !.running = TRUE]
    /\ UNCHANGED <<fn, arg, mailVars>>

OutlookQuits ==
    /\ fn = "server" /\ ret.running
    /\ ret' = [ret EXCEPT !.running = FALSE]
    /\ UNCHANGED <<fn, arg, mailVars>>

\* The handler up to the first await: the guard and the checks of the case
\* throw into the catch, or the function is called and checkOutlookAccess
\* dispatches its first query
HandleRequest(i) ==
    /\ fn = "server" /\ ret.inv[i].pc = "idle"
    /\ ret' = [ret EXCEPT !.inv[i] =
                  IF HandlerError(arg[i]) # NoError
                  THEN Answered(@, "Error: Invalid arguments")
                  ELSE Awaiting(@, "query1")]
    /\ UNCHANGED <<fn, arg, mailVars>>

\* exists application process "Microsoft Outlook": anything but "true"
\* throws; "true" dispatches the second query
Query1Returns(i) ==
    /\ fn = "server" /\ ret.inv[i].pc = "query1"
    /\ \/ /\ ret.running
          /\ ret' = [ret EXCEPT !.inv[i] = Awaiting(@, "query2")]
       \/ /\ ~ret.running
          /\ ret' = [ret EXCEPT !.inv[i] = AccessFailed([@ EXCEPT !.sawDown = TRUE])]
       \/ ret' = [ret EXCEPT !.inv[i] = AccessFailed(@)]
    /\ UNCHANGED <<fn, arg, mailVars>>

\* application process "Microsoft Outlook" exists: anything but "true"
\* dispatches the activation
Query2Returns(i) ==
    /\ fn = "server" /\ ret.inv[i].pc = "query2"
    /\ \/ /\ ret.running
          /\ ret' = [ret EXCEPT !.inv[i] = AfterAccess(@, arg[i])]
       \/ /\ ~ret.running
          /\ ret' = [ret EXCEPT !.inv[i] = Awaiting([@ EXCEPT !.sawDown = TRUE],
                                                    "activate")]
       \/ ret' = [ret EXCEPT !.inv[i] = AccessFailed(@)]
    /\ UNCHANGED <<fn, arg, mailVars>>

\* tell application "Microsoft Outlook" to activate: it launches Outlook, or
\* it fails and checkOutlookAccess throws
ActivateReturns(i) ==
    /\ fn = "server" /\ ret.inv[i].pc = "activate"
    /\ \/ ret' = [ret EXCEPT !.running = TRUE, !.inv[i] = AfterAccess(@, arg[i])]
       \/ ret' = [ret EXCEPT !.inv[i] = AccessFailed(@)]
    /\ UNCHANGED <<fn, arg, mailVars>>

\* the script of the operation returns or fails, and the handler answers
OperationReturns(i) ==
    /\ fn = "server" /\ ret.inv[i].pc = "operation"
    /\ \E answer \in {"${result}", "Error: ${errMsg}"} :
          ret' = [ret EXCEPT !.inv[i] = Answered(@, answer)]
    /\ UNCHANGED <<fn, arg, mailVars>>

NextServer ==
    \/ OutlookStarts
    \/ OutlookQuits
    \/ \E i \in Invocations :
          \/ HandleRequest(i)
          \/ Query1Returns(i)
          \/ Query2Returns(i)
          \/ ActivateReturns(i)
          \/ OperationReturns(i)

SpecServer == InitServer /\ [][NextServer]_vars

-----------------------------------------------------------------------------
(* Claims about escapeForAppleScript *)

\* The rule stated character by character: a backslash becomes two
\* backslashes, a double-quote becomes backslash double-quote, any other
\* character stays.
EscapedChar(c) ==
    IF c = BACKSLASH THEN <<BACKSLASH, BACKSLASH>>
    ELSE IF c = QUOTE THEN <<BACKSLASH, QUOTE>>
    ELSE <<c>>

ExpectedEscape(s) == Concat([i \in 1..Len(s) |-> EscapedChar(s[i])])

HasSpecial(s) == \E i \in 1..Len(s) : s[i] \in {BACKSLASH, QUOTE}

\* C8: escapeForAppleScript(s) is s with every backslash doubled and then
\* every double-quote preceded by one backslash (the backslashes that the
\* quote step adds are not doubled again); a text with neither character,
\* the empty text included, is returned unchanged.
C8_EscapeRule ==
    fn = "escapeForAppleScript" =>
        /\ ret = ExpectedEscape(arg)
        /\ (~HasSpecial(arg) => ret = arg)

C8_Witness ==
    /\ fn = "escapeForAppleScript"
    /\ arg = <<"a", BACKSLASH, QUOTE>>
    /\ ret = <<"a", BACKSLASH, BACKSLASH, BACKSLASH, QUOTE>>

-----------------------------------------------------------------------------
(* Claims about parseRecipients *)

\* t is s without its leading and trailing white space
IsTrimOf(t, s) ==
    \E a \in 0..Len(s) : \E b \in 0..(Len(s) - a) :
        /\ t = SubSeq(s, a+1, Len(s)-b)
        /\ \A i \in 1..a : IsSpace(s[i])
        /\ \A i \in (Len(s)-b+1)..Len(s) : IsSpace(s[i])
        /\ (t # <<>> => ~IsSpace(t[1]) /\ ~IsSpace(t[Len(t)]))

\* The places of the commas of s, with 0 and Len(s)+1 as the outer borders
CommaBorders(s) == {0, Len(s)+1} \cup {i \in 1..Len(s) : s[i] = ","}

\* The i-th border in increasing order
NthBorder(s, i) ==
    CHOOSE p \in CommaBorders(s) :
        Cardinality({q \in CommaBorders(s) : q < p}) = i - 1

\* The i-th comma-delimited segment of s
Segment(s, i) == SubSeq(s, NthBorder(s, i) + 1, NthBorder(s, i+1) - 1)

\* The display name the claim gives a trimmed segment
NameIsOf(name, address) ==
    LET lt == IndexOf(address, "<") IN
    IF lt > 1
    THEN IsTrimOf(name, SubSeq(address, 1, lt-1))
    ELSE /\ Len(name) <= Len(address)
         /\ name = SubSeq(address, 1, Len(name))
         /\ \A i \in 1..Len(name) : name[i] # "@"
         /\ (Len(name) < Len(address) => address[Len(name)+1] = "@")

\* C9: parseRecipients returns one recipient per comma-delimited segment, in
\* input order; each address is the trimmed segment, each name the trimmed
\* text before "<" when the segment has a display prefix and otherwise the
\* part of the address before the first "@".
C9_OneRecipientPerSegment ==
    fn = "parseRecipients" =>
        /\ Len(ret) = Cardinality({i \in 1..Len(arg) : arg[i] = ","}) + 1
        /\ \A i \in 1..Len(ret) :
            /\ IsTrimOf(ret[i].address, Segment(arg, i))
            /\ NameIsOf(ret[i].name, ret[i].address)

C9_Witness ==
    /\ fn = "parseRecipients"
    /\ arg = <<"a", "@", ",", " ">>
    /\ ret = <<[name |-> <<"a">>, address |-> <<"a", "@">>],
               [name |-> <<>>, address |-> <<>>]>>

-----------------------------------------------------------------------------
(* Claims about the folder reference builders *)

SlashCount(p) == Cardinality({i \in 1..Len(p) : p[i] = "/"})

SlashBorders(p) == {0, Len(p)+1} \cup {i \in 1..Len(p) : p[i] = "/"}

NthSlashBorder(p, i) ==
    CHOOSE b \in SlashBorders(p) :
        Cardinality({q \in SlashBorders(p) : q < b}) = i - 1

\* The i-th "/"-delimited segment of p, counted from the root
PathSegment(p, i) ==
    SubSeq(p, NthSlashBorder(p, i) + 1, NthSlashBorder(p, i+1) - 1)

\* The named lookups of a reference, in the order of its text
Lookups(ref) == SelectSeq(ref, LAMBDA tok : tok.t = "mail folder")

\* C6: for a path with k >= 1 separators the nested resolver emits exactly
\* k+1 named lookups, leaf first: the j-th lookup of the text names the
\* (k+2-j)-th segment from the root, each lookup after the first is joined
\* by the qualifier "of", and the inbox token never appears.
C6_NestedLeafFirst ==
    (fn = "buildNestedFolderRef" /\ SlashCount(arg) >= 1) =>
        LET k == SlashCount(arg) IN
        /\ Len(Lookups(ret)) = k + 1
        /\ Len(ret) = 2 * k + 1
        /\ \A j \in 1..(k+1) :
            /\ ret[2*j - 1] = MailFolder(PathSegment(arg, k + 2 - j))
            /\ (j > 1 => ret[2*j - 2] = OfTok)

C6_Witness ==
    /\ fn = "buildNestedFolderRef"
    /\ arg = <<"A", "/", "B", "/", "C", "/", "D">>
    /\ ret = <<MailFolder(<<"D">>), OfTok, MailFolder(<<"C">>), OfTok,
               MailFolder(<<"B">>), OfTok, MailFolder(<<"A">>)>>

\* C7: for an identifier without "/", the flat and the nested builder both
\* return the inbox token when it is exactly "Inbox" and otherwise one named
\* lookup of that exact text ("inbox", "INBOX" and "" are named lookups).
C7_FlatAndNestedAgree ==
    (fn \in {"buildFolderRef", "buildNestedFolderRef"} /\ SlashCount(arg) = 0) =>
        ret = IF arg = INBOX_NAME THEN <<InboxTok>> ELSE <<MailFolder(arg)>>

C7_Witness ==
    /\ fn = "buildNestedFolderRef"
    /\ arg = <<"i", "n", "b", "o", "x">>
    /\ ret = <<MailFolder(<<"i", "n", "b", "o", "x">>)>>

-----------------------------------------------------------------------------
(* Claims about parseEmailOutput *)

\* C10 as stated: parsing the concatenated serializations returns one record
\* per message, in order, whose subject, sender, date and content are the
\* trimmed field texts and whose messageId is the trimmed id when the id
\* segment is present and undefined when it is absent.
C10_RoundTripAsStated ==
    fn = "parseEmailOutput" =>
        /\ Len(ret) = Len(arg.src)
        /\ \A i \in 1..Len(ret) :
            LET m == arg.src[i] IN
            /\ ret[i].subject = Trim(m.subject)
            /\ ret[i].sender = Trim(m.sender)
            /\ ret[i].dateSent = Trim(m.date)
            /\ ret[i].content = Trim(m.content)
            /\ ret[i].messageId =
                   IF m.id.defined THEN Defined(Trim(m.id.v)) ELSE Undefined

\* C10 (amended): as above, except that a subject that is blank after
\* trimming is returned as "No subject" and a content that is blank after
\* trimming as "[Content not available]".
C10_RoundTrip ==
    fn = "parseEmailOutput" =>
        /\ Len(ret) = Len(arg.src)
        /\ \A i \in 1..Len(ret) :
            LET m == arg.src[i] IN
            /\ ret[i].subject =
                   IF Trim(m.subject) = <<>> THEN NO_SUBJECT ELSE Trim(m.subject)
            /\ ret[i].sender = Trim(m.sender)
            /\ ret[i].dateSent = Trim(m.date)
            /\ ret[i].content =
                   IF Trim(m.content) = <<>> THEN NO_CONTENT ELSE Trim(m.content)
            /\ ret[i].messageId =
                   IF m.id.defined THEN Defined(Trim(m.id.v)) ELSE Undefined

C10_Witness ==
    /\ fn = "parseEmailOutput"
    /\ Len(arg.src) = 2
    /\ arg.src[1].id = Undefined /\ arg.src[2].id # Undefined
    /\ arg.src[1].content = <<"a", "\n", "<">>
    /\ Len(ret) = 2
    /\ ret[1].messageId = Undefined /\ ret[1].content = <<"a", "\n", "<">>
    /\ ret[2].messageId = Defined(<<"7">>)

-----------------------------------------------------------------------------
(* Claims about the generated scripts and the result texts, under Spec *)

FolderKinds ==
    {"unread", "read", "search", "count", "move_email", "create_folder",
     "rename_folder", "delete_folder"}

\* the folder identifier the caller gave to the operation
FolderIdOf(r) ==
    IF r.operation \in {"unread", "read", "search"} THEN FolderOrDefault(r.folder)
    ELSE IF r.operation = "count"
    THEN (IF r.folder.defined /\ r.folder.v # <<>> THEN r.folder.v ELSE INBOX_NAME)
    ELSE IF r.operation = "move_email" THEN r.targetFolder
    ELSE IF r.operation = "create_folder" THEN r.parent
    ELSE r.folder.v

\* C1: every mail operation that takes a folder identifier resolves a slash
\* path through the nested resolver: the folder reference of its script is
\* the leaf-first chain of lookups, never one lookup of the whole path and
\* never the path put in unresolved.
C1_SlashPathsNested ==
    (script.kind \in FolderKinds /\ SlashCount(FolderIdOf(req)) > 0) =>
        script.folderRef = buildNestedFolderRef(FolderIdOf(req))

\* C2: every quoted literal of every generated script that holds a caller's
\* text is that text escaped once with the full rule, backslashes doubled
\* and then quotes escaped.
C2_EveryLiteralFullyEscaped ==
    \A i \in 1..Len(script.literals) :
        script.literals[i].text = escapeForAppleScript(script.literals[i].raw)

RecipientKinds == {"send1", "send2", "send3", "draft", "forward", "reply"}
Classes == {"to", "cc", "bcc"}

\* the list the caller gave for a recipient class of the operation
ListOf(r, class) ==
    IF r.operation \in {"send", "draft"}
    THEN (IF class = "to" THEN r.to ELSE IF class = "cc" THEN r.cc ELSE r.bcc)
    ELSE IF r.operation = "forward"
    THEN (IF class = "to" THEN r.forwardTo
          ELSE IF class = "cc" THEN r.forwardCc ELSE r.forwardBcc)
    ELSE IF class = "to" THEN (IF r.replyTo # <<>> THEN r.replyTo ELSE r.addTo)
    ELSE IF class = "cc" THEN (IF r.replyCc # <<>> THEN r.replyCc ELSE r.addCc)
    ELSE (IF r.replyBcc # <<>> THEN r.replyBcc ELSE r.addBcc)

CommaCount(list) == Cardinality({i \in 1..Len(list) : list[i] = ","})

StatementsOf(class) ==
    {i \in 1..Len(script.recipients) : script.recipients[i].class = class}

\* C3: in every send, draft, reply and forward script each TO, CC and BCC
\* list is written as one recipient-construction statement per
\* comma-separated address, and no statement holds a comma-separated list.
C3_ListsExploded ==
    script.kind \in RecipientKinds =>
        /\ \A class \in Classes :
              Cardinality(StatementsOf(class)) =
                  IF ListOf(req, class) = <<>> THEN 0
                  ELSE CommaCount(ListOf(req, class)) + 1
        /\ \A i \in 1..Len(script.recipients) :
              CommaCount(script.recipients[i].address) = 0

\* parseRecipients of a list, each name and address escaped
ParsedAndEscaped(class, list) ==
    LET rs == IF list = <<>> THEN <<>> ELSE parseRecipients(list) IN
    [i \in 1..Len(rs) |->
        [class |-> class, hasName |-> TRUE,
         name |-> escapeForAppleScript(rs[i].name),
         address |-> escapeForAppleScript(rs[i].address)]]

\* C4: whichever of the three send strategies builds the message, its TO, CC
\* and BCC recipients are parseRecipients of the inputs, each escaped.
C4_SameRecipientsInEveryTier ==
    script.kind \in {"send1", "send2", "send3"} =>
        script.recipients =
            ParsedAndEscaped("to", req.to) \o ParsedAndEscaped("cc", req.cc)
                \o ParsedAndEscaped("bcc", req.bcc)

MessageKinds ==
    {"send1", "send2", "send3", "draft", "reply_draft", "reply", "forward"}

HasWord(text, words) == \E i \in 1..Len(text) : text[i] \in words

SaysQueuedForDelivery(text) ==
    \E i \in 1..Len(text) :
        /\ i + 2 <= Len(text)
        /\ text[i] = "queued" /\ text[i+1] = "for" /\ text[i+2] = "delivery"

SaysDraftCreated(text) ==
    HasWord(text, {"draft", "Draft"}) /\ HasWord(text, {"created"})

SaysDelivered(text) ==
    HasWord(text, {"sent", "Sent", "sent.", "queued", "Queued", "success",
                   "Success", "successfully", "Successfully", "successfully."})

\* the function returned the text of a script that ran through
Succeeded ==
    /\ pc = "done"
    /\ result.kind = "return"
    /\ script.kind \in MessageKinds
    /\ result.text[1] # "Error:"

-----------------------------------------------------------------------------
(* Claims about parseEmailOutput on any text, under SpecParseRaw.  The     *)
(* fragments are read off the pieces the text was put together from.       *)

\* the pieces between the message sentinels, one list per fragment
RECURSIVE PieceSplit(_)
PieceSplit(ps) ==
    IF \A i \in 1..Len(ps) : ps[i] # MSG_TOK THEN <<ps>>
    ELSE LET i == CHOOSE k \in 1..Len(ps) :
                      ps[k] = MSG_TOK /\ \A j \in 1..(k-1) : ps[j] # MSG_TOK
         IN  <<SubSeq(ps, 1, i-1)>> \o PieceSplit(SubSeq(ps, i+1, Len(ps)))

PlacesOf(f, tok) == {i \in 1..Len(f) : f[i] = tok}

\* the sentinel that ends the subject of a fragment
BoundaryOf(f) == IF PlacesOf(f, ID_TOK) # {} THEN ID_TOK ELSE FROM_TOK

HasBoundary(f) == PlacesOf(f, BoundaryOf(f)) # {}

\* the fragments that hold a subject boundary, in input order
Fragments(ps) == SelectSeq(PieceSplit(ps), HasBoundary)

\* the text between the first open sentinel and the last close sentinel
\* after it, and whether there is such a segment
HasSegment(f, open, close) ==
    /\ PlacesOf(f, open) # {}
    /\ \E c \in PlacesOf(f, close) : c > Min(PlacesOf(f, open))

SegmentText(f, open, close) ==
    Concat(SubSeq(f, Min(PlacesOf(f, open)) + 1, Max(PlacesOf(f, close)) - 1))

SubjectText(f) == Concat(SubSeq(f, 1, Max(PlacesOf(f, BoundaryOf(f))) - 1))

IsBlank(text) == \A i \in 1..Len(text) : IsSpace(text[i])

\* C11: every record parseEmailOutput returns has a non-empty subject and a
\* non-empty content; a missing or blank subject is "No subject", a missing
\* or blank content is "[Content not available]", and a missing sender
\* segment is "Unknown sender".
C11_DefaultsForMissingFields ==
    (fn = "parseEmailOutput" /\ arg.raw.defined) =>
        LET fs == Fragments(arg.src) IN
        /\ Len(ret) = Len(fs)
        /\ \A i \in 1..Len(ret) :
            /\ ret[i].subject # <<>> /\ ret[i].content # <<>>
            /\ IsBlank(SubjectText(fs[i])) => ret[i].subject = NO_SUBJECT
            /\ (\/ ~HasSegment(fs[i], CONTENT_TOK, ENDMSG_TOK)
                \/ IsBlank(SegmentText(fs[i], CONTENT_TOK, ENDMSG_TOK)))
                   => ret[i].content = NO_CONTENT
            /\ ~HasSegment(fs[i], FROM_TOK, DATE_TOK)
                   => ret[i].sender = UNKNOWN_SENDER

\* a record with a blank subject, no sender segment and no content segment
C11_Witness ==
    /\ fn = "parseEmailOutput"
    /\ arg.src = <<MSG_TOK, <<" ">>, ID_TOK>>
    /\ ret = <<[messageId |-> Undefined, subject |-> NO_SUBJECT,
                sender |-> UNKNOWN_SENDER, dateSent |-> NOW_STRING,
                content |-> NO_CONTENT]>>

\* C12: parseEmailOutput returns the empty sequence for an empty, blank,
\* null or undefined input; a fragment without the subject boundary gives
\* no record, and every other fragment of the input gives its record, in
\* input order, with its own subject.
C12_LenientParsing ==
    fn = "parseEmailOutput" =>
        /\ (~arg.raw.defined \/ IsBlank(arg.raw.v)) => ret = <<>>
        /\ arg.raw.defined =>
            LET fs == Fragments(arg.src) IN
            /\ Len(ret) = Len(fs)
            /\ \A i \in 1..Len(ret) :
                ret[i].subject =
                    IF IsBlank(SubjectText(fs[i])) THEN NO_SUBJECT
                    ELSE Trim(SubjectText(fs[i]))

\* a fragment without boundary before a fragment that is parsed
C12_Witness ==
    /\ fn = "parseEmailOutput"
    /\ arg.src = <<MSG_TOK, <<"x">>, MSG_TOK, FROM_TOK>>
    /\ Len(ret) = 1
    /\ ret[1].subject = NO_SUBJECT

-----------------------------------------------------------------------------
(* Claims about detectHtml, under SpecHtml *)

\* the tag names of the allow-list, written out
ALLOW_LIST ==
    {<<"p">>,
     <<"d", "i", "v">>,
     <<"b", "r">>,
     <<"s", "p", "a", "n">>,
     <<"t", "a", "b", "l", "e">>,
     <<"u", "l">>,
     <<"o", "l">>,
     <<"l", "i">>,
     <<"a">>,
     <<"b">>,
     <<"i">>,
     <<"s", "t", "r", "o", "n", "g">>,
     <<"e", "m">>,
     <<"i", "m", "g">>,
     <<"h", "r">>,
     <<"h", "1">>,
     <<"h", "2">>,
     <<"h", "3">>,
     <<"h", "4">>,
     <<"h", "5">>,
     <<"h", "6">>}

\* the texts "<" name end, for the names of the allow-list and the three
\* kinds of end
OpeningTags ==
    {<<"<">> \o name \o <<e>> : name \in ALLOW_LIST, e \in {">", "/", " ", "\n", "\t"}}

FoldText(text) == [k \in 1..Len(text) |-> FoldCase(text[k])]

\* C13: detectHtml(body) is true exactly when the body, letters taken
\* without their case, holds "<", a tag name of the allow-list and then ">",
\* white space or "/".
C13_DetectHtml ==
    fn = "detectHtml" =>
        (ret <=> \E a \in 1..Len(arg) : \E b \in a..Len(arg) :
                    FoldText(SubSeq(arg, a, b)) \in OpeningTags)

\* "<DIV>x</div>" is HTML
C13_Witness ==
    /\ fn = "detectHtml"
    /\ arg = <<"<", "D", "I", "V", ">", "x", "<", "/", "d", "i", "v", ">">>
    /\ ret = TRUE

-----------------------------------------------------------------------------
(* Claims about the content mode of a message, under Spec *)

BodyKinds == {"send1", "send2", "send3", "draft", "reply_draft", "reply"}

BodyOf(r) == IF r.operation = "reply" THEN r.replyBody ELSE r.body

\* C14: in the scripts of send, draft and reply the body is set as HTML
\* content exactly when isHtml is true, or isHtml is not given and
\* detectHtml finds the body to be HTML.
C14_ContentModeDetected ==
    script.kind \in BodyKinds =>
        (script.html <=> IF req.isHtml = "absent" THEN detectHtml(BodyOf(req))
                         ELSE req.isHtml = "true")

-----------------------------------------------------------------------------
(* Claims about the validation of a reply, under Spec *)

\* the override of a class is given together with its add or its remove
ClassConflict(override, add, remove) ==
    override # <<>> /\ (add # <<>> \/ remove # <<>>)

ConflictingOverrides(r) ==
    {c \in {"replyTo", "replyCc", "replyBcc"} :
        \/ c = "replyTo" /\ ClassConflict(r.replyTo, r.addTo, r.removeTo)
        \/ c = "replyCc" /\ ClassConflict(r.replyCc, r.addCc, r.removeCc)
        \/ c = "replyBcc" /\ ClassConflict(r.replyBcc, r.addBcc, r.removeBcc)}

-----------------------------------------------------------------------------
(* Claims about the validation of requests, under SpecHandler *)

\* a request with arguments for one of the three tools is being handled
Handling == pc # "idle" /\ req.hasArgs /\ req.tool \in TOOLS

\* no function was called for the request, and the answer is an error
Rejected ==
    /\ log = <<>>
    /\ pc # "calling"
    /\ pc = "done" => (result.kind = "response" /\ result.isError)

\* C16: an empty_trash request with neither preview nor confirm, or with
\* both, is answered with an error response, and emptyTrash, which
\* dispatches the preview script and the deleting script, is not called.
C16_EmptyTrashFlagsRejected ==
    (/\ Handling /\ req.tool = "outlook_mail" /\ req.operation = "empty_trash"
     /\ ("preview" \in req.given) = ("confirm" \in req.given))
        => Rejected

C16_Witness ==
    /\ Handling /\ req.tool = "outlook_mail" /\ req.operation = "empty_trash"
    /\ req.given = {"preview", "confirm"}
    /\ pc = "done" /\ result.isError /\ log = <<>>

\* the operations each tool knows
KnownOperations(tool) ==
    IF tool = "outlook_mail" THEN MAIL_OPERATIONS
    ELSE IF tool = "outlook_calendar" THEN CALENDAR_OPERATIONS
    ELSE CONTACTS_OPERATIONS

\* the required fields of the operations of the mail tool, and of search
Lacks(a, fields) == \E f \in fields : f \notin a.given

LacksRequired(a) ==
    \/ a.operation = "search" /\ Lacks(a, {"searchTerm"})
    \/ /\ a.tool = "outlook_mail"
       /\ \/ a.operation = "send" /\ Lacks(a, {"to", "subject", "body"})
          \/ /\ a.operation = "draft"
             /\ \/ Lacks(a, {"body"})
                \/ "replyToMessageId" \notin a.given /\ Lacks(a, {"to", "subject"})
          \/ a.operation = "reply" /\ Lacks(a, {"messageId", "replyBody"})
          \/ a.operation = "forward" /\ Lacks(a, {"messageId", "forwardTo"})
          \/ a.operation = "move_email" /\ Lacks(a, {"messageId", "targetFolder"})
          \/ a.operation = "rename_folder" /\ Lacks(a, {"folder", "newName"})

ListedOperations ==
    {"send", "draft", "reply", "forward", "search", "move_email", "rename_folder"}

\* C17: a request to one of the three tools whose operation the tool does
\* not know, or that lacks a required field of its operation, is answered
\* with an error response and no function that dispatches a script is
\* called; every request is answered; and a request for one of the listed
\* operations that has its required fields has its function called, with
\* or without a field no tool knows.
C17_InvalidRequestsRejected ==
    Handling =>
        /\ (req.operation \notin KnownOperations(req.tool) \/ LacksRequired(req))
               => Rejected
        /\ pc = "done" => (result.kind = "response" /\ result.text # <<>>)
        /\ (/\ pc = "done"
            /\ req.operation \in KnownOperations(req.tool) \cap ListedOperations
            /\ ~LacksRequired(req)
            /\ req.attachments # "other")
               => log = <<FunctionOf(req)>>

\* a forward without forwardTo, sent with a field no tool knows
C17_Witness ==
    /\ Handling /\ req.tool = "outlook_mail" /\ req.operation = "forward"
    /\ req.given = {"messageId"} /\ req.extra
    /\ pc = "done" /\ result.isError /\ log = <<>>

\* C18: a validation failure is answered with the message of its operation:
\* empty_trash with neither flag, empty_trash with both flags, and send
\* without its recipient, subject or body each have their own text.
C18_OperationSpecificMessages ==
    (Handling /\ pc = "done" /\ req.tool = "outlook_mail") =>
        /\ (req.operation = "empty_trash" /\ req.given = {})
               => result.text = <<"Error: ",
                      "empty_trash requires either preview: true or confirm: true">>
        /\ (req.operation = "empty_trash" /\ req.given = {"preview", "confirm"})
               => result.text = <<"Error: ",
                      "Cannot use both preview and confirm - use one at a time">>
        /\ (req.operation = "send" /\ Lacks(req, {"to", "subject", "body"}))
               => result.text = <<"Error: ",
                      "Recipient (to), subject, and body are required for send operation">>

-----------------------------------------------------------------------------
(* Claims about the date filter of read and search, under SpecScan *)

\* the message at place i was sent within the range the request gives
WithinRange(i) ==
    /\ arg.startDate.defined => arg.msgs[i].sent >= 2 * arg.startDate.v
    /\ arg.endDate.defined => arg.msgs[i].sent <= 2 * arg.endDate.v + 1

Qualifies(i) == WithinRange(i) /\ (fn = "searchEmails" => arg.msgs[i].hasTerm)

-----------------------------------------------------------------------------
(* Claims about listFolders, under SpecListFolders *)

\* the names from the top-level folder down to folder i
RECURSIVE RootPath(_, _)
RootPath(t, i) ==
    IF t.holder[i] = 0 THEN <<t.name[i]>>
    ELSE Append(RootPath(t, t.holder[i]), t.name[i])

\* folder i lies, at any depth, in a trash folder
RECURSIVE InTrash(_, _)
InTrash(t, i) ==
    /\ t.holder[i] # 0
    /\ \/ t.name[t.holder[i]] \in {TRASH_NAME, DELETED_ITEMS_NAME}
       \/ InTrash(t, t.holder[i])

\* the folders a call is to list: those of the accounts it includes, less,
\* unless excludeDeleted is false, what lies in a trash folder
Listed(a) ==
    {i \in 1..Len(a.tree.holder) :
        /\ a.account = <<>> \/ a.tree.account[i] = a.account
        /\ a.excludeDeleted # "false" => ~InTrash(a.tree, i)}

\* the ways to put the folders of S in a row
RowsOf(S) ==
    {o \in [1..Cardinality(S) -> S] :
        \A j, k \in 1..Cardinality(S) : j # k => o[j] # o[k]}

\* the entries are those of the folders of row o, one by one
ListsRow(t, entries, o) ==
    /\ Len(entries) = Len(o)
    /\ \A k \in 1..Len(o) :
          /\ entries[k].path = RootPath(t, o[k])
          /\ entries[k].path # <<>>
          /\ entries[k].account = t.account[o[k]]
          /\ t.holder[o[k]] # 0 => \E j \in 1..(k - 1) : o[j] = t.holder[o[k]]

\* C20: when listFolders has returned, its entries are those of the folders
\* it is to list, each folder once, a folder after the folder that holds it,
\* and the path of an entry is the non-empty sequence of the names from the
\* top-level folder down to its folder.
C20_HierarchicalListing ==
    fn = "listFolders" /\ ret.phase = "done" =>
        \E o \in RowsOf(Listed(arg)) : ListsRow(arg.tree, ret.folders, o)

-----------------------------------------------------------------------------
(* Claims about the trash filter of listFolders, under SpecListFolders *)

\* the line the script writes for folder i
LineOf(a, i) ==
    FolderInfoLine(RootPath(a.tree, i), a.tree.account[i], a.tree.name[i],
                   a.includeCounts)

\* the folders of the accounts a call includes
Included(a) ==
    {i \in 1..Len(a.tree.holder) :
        a.account = <<>> \/ a.tree.account[i] = a.account}

\* how many lines of the list are the line l
LinesEqual(folderList, l) ==
    Cardinality({k \in 1..Len(folderList) : folderList[k] = l})

-----------------------------------------------------------------------------
(* Claims about the answer to a failed script, under SpecHandler *)

\* C22: when the script of the function a request called has returned an
\* "Error: ..." text or has raised, the request is answered with a response
\* that has isError true.
C22_ScriptFailureFlagged ==
    pc = "done" /\ log # <<>> /\ ret # <<"ok">> =>
        result.kind = "response" /\ result.isError

-----------------------------------------------------------------------------
(* Claims about empty_trash, under SpecTrash *)

\* emptyTrash has returned the result of an execute script that ran through
Executed ==
    /\ fn = "emptyTrash" /\ ret.phase = "done" /\ ret.mode = "execute"
    /\ ~ret.answer.isError

\* the messages of the folder on which permanently delete succeeds
Deletable(a) == {i \in 1..Len(a.deletable) : a.deletable[i]}

C28_DeletesOnlyOnConfirm ==
    fn = "emptyTrash" =>
        /\ ret.dispatched = <<"execute">> => Truthy(arg.confirm)
        /\ Truthy(arg.preview) /\ ~Truthy(arg.confirm) =>
              /\ ret.mode = "preview"
              /\ ret.dispatched \in {<<>>, <<"preview">>}
              /\ ret.folder = 1..Len(arg.deletable)

\* C30: the answer of the execute script that ran through has deleted 0 and
\* the message "Deleted Items folder is already empty" exactly when the
\* folder held no message when the script ran.
C30_AlreadyEmptyOnlyWhenEmpty ==
    Executed =>
        ((ret.answer.text.deleted = 0 /\ ret.answer.text.message = ALREADY_EMPTY)
            <=> Len(arg.deletable) = 0)

-----------------------------------------------------------------------------
(* Claims about the order of the send strategies, under Spec *)

SEND_ORDER == <<"send1", "send2", "send3">>

\* what sendEmail returns when its k-th strategy succeeded
SendResults == <<W_QueuedWithAttachments, W_Queued, W_DraftCreatedManual>>

\* a step of a send that dispatches a script dispatches the strategy that
\* follows the ones dispatched so far, and nothing has been returned or
\* thrown before it
SendDispatchInOrder ==
    req.operation = "send" /\ log' # log =>
        /\ result = NoResult
        /\ Len(log) < Len(SEND_ORDER)
        /\ log' = Append(log, SEND_ORDER[Len(log) + 1])

\* a send returns the result of the last strategy dispatched, and throws,
\* once a strategy was dispatched, only after the third
SendEndsAtSuccess ==
    req.operation = "send" /\ log # <<>> =>
        /\ result.kind = "return" => result.text = SendResults[Len(log)]
        /\ result.kind = "throw" => log = SEND_ORDER
        /\ pc = "done" => result # NoResult

-----------------------------------------------------------------------------
(* Claims about the calls to the automation target, under SpecServer *)

\* the request fails a validation: it lacks a field its operation requires,
\* it gives both or none of the empty_trash flags, or it is a reply that
\* overrides a recipient class and adds to it or removes from it
FailsValidation(a) == HandlerError(a) # NoError \/ GivenReplyConflict(a)

\* C25: an invocation whose request fails a validation has made no call to
\* the automation target, the queries of the availability check included,
\* at any time, and it is answered with an error.
C25_RejectedBeforeAnyCall ==
    fn = "server" =>
        \A i \in Invocations :
            FailsValidation(arg[i]) =>
                /\ ret.inv[i].calls = <<>>
                /\ ret.inv[i].pc \in {"idle", "done"}

\* the number of activations an invocation has dispatched
Activations(v) == Cardinality({k \in 1..Len(v.calls) : v.calls[k] = "activate"})

\* C26: an invocation dispatches at most one activation, and one whose
\* availability check found Outlook not running and that is answered with
\* the error of the check has dispatched one.
C26_OneActivationBeforeError ==
    fn = "server" =>
        \A i \in Invocations :
            /\ Activations(ret.inv[i]) <= 1
            /\ (/\ ret.inv[i].sawDown
                /\ ret.inv[i].answer = "Error: Cannot access Microsoft Outlook")
                   => Activations(ret.inv[i]) = 1

\* the invocations that await a script of theirs
InFlight == {i \in Invocations : ret.inv[i].pc \in SCRIPT_POSITIONS}

\* C27: at no time do two invocations await a script, and an invocation
\* awaits no script before the one it dispatched before has returned.
C27_OneScriptInFlight == fn = "server" => Cardinality(InFlight) <= 1

-----------------------------------------------------------------------------
(* Claims about the escaped text inside a literal, under SpecEscape *)

\* the number of backslashes that end at place i - 1 of s
RECURSIVE BackslashesBefore(_, _)
BackslashesBefore(s, i) ==
    IF i > 1 /\ s[i - 1] = BACKSLASH THEN 1 + BackslashesBefore(s, i - 1) ELSE 0

\* C29: in escapeForAppleScript(str) every double-quote comes right after
\* an odd number of backslashes, and the text ends with an even number of
\* backslashes, none included.
C29_QuotesNeutralized ==
    fn = "escapeForAppleScript" =>
        /\ \A i \in 1..Len(ret) :
              ret[i] = QUOTE => BackslashesBefore(ret, i) % 2 = 1
        /\ BackslashesBefore(ret, Len(ret) + 1) % 2 = 0

\* a quote after a backslash, and a backslash at the end
C29_Witness ==
    /\ fn = "escapeForAppleScript"
    /\ arg = <<BACKSLASH, QUOTE, BACKSLASH>>
    /\ BackslashesBefore(ret, 4) = 3
    /\ BackslashesBefore(ret, Len(ret) + 1) = 2

=============================================================================
